---- MODULE Spec2Model ----
(***************************************************************************)
(* Alpha-Discovery: factor evaluation engine.                              *)
(*                                                                         *)
(* Three state machines over one set of variables:                         *)
(*   SpecMetrics  the stateless metric functions of utils/metrics.py,      *)
(*                backtest/analysis.py and the static helpers of           *)
(*                backtest/factor_test.py, applied to a return series;     *)
(*   SpecMulti    MultiFactorBacktest and PortfolioOptimizer               *)
(*                (backtest/portfolio.py);                                 *)
(*   SpecFB       one FactorBacktest object (backtest/factor_test.py).     *)
(*                                                                         *)
(* Floating-point values are modelled as exact rationals <<n, d>> in       *)
(* lowest terms with d > 0, extended by NaN = <<0, 0>> and the infinities  *)
(* <<1, 0>> and <<-1, 0>>; rounding is not modelled.                       *)
(***************************************************************************)
EXTENDS Integers, Sequences, FiniteSets, TLC

VARIABLES
    returns,        \* SpecMetrics: the return series handed to a metric function
    called,         \* SpecMetrics: the metric function called last ("none" before)
    cumulative,     \* SpecMetrics: the cumulative curve that call was given
    result,         \* SpecMetrics: what that call returned
    provider,       \* SpecMulti: what a FactorBacktest.run of each factor yields
    mbt,            \* SpecMulti: the MultiFactorBacktest object (None before construction)
    mbt_call,       \* SpecMulti: the last call on it and how it ended
    opt,            \* SpecMulti: the PortfolioOptimizer object (None before construction)
    opt_call,       \* SpecMulti: the last call on it, how it ended and what it returned
    fb_provider,    \* SpecFB: the data provider's factor panel and close prices
    fb,             \* SpecFB: the FactorBacktest object (None before construction)
    fb_call,        \* SpecFB: the last call on it, how it ended, what it returned, its locals
    fb_outputs      \* SpecPipeline: history variable, the first output of each analysis call
                    \* on the panels the object holds now

vars == <<returns, called, cumulative, result, provider, mbt, mbt_call, opt, opt_call,
          fb_provider, fb, fb_call, fb_outputs>>

metricsVars == <<returns, called, cumulative, result>>
multiVars == <<provider, mbt, mbt_call, opt, opt_call>>

\* Python's None, and a value that is not None
None == <<>>
Some(x) == <<x>>
IsNone(o) == o = <<>>
Get(o) == o[1]
fbVars == <<fb_provider, fb, fb_call, fb_outputs>>

\* the empty history: no first outputs, and the last call repeated nothing
NoOutputs == [first |-> <<>>, again |-> FALSE]

(***************************************************************************)
(* Floating-point numbers as extended rationals.                           *)
(***************************************************************************)
NaN == <<0, 0>>

IAbs(x) == IF x < 0 THEN -x ELSE x
ISgn(x) == IF x < 0 THEN -1 ELSE IF x > 0 THEN 1 ELSE 0

RECURSIVE GCD(_, _)
GCD(a, b) == IF b = 0 THEN a ELSE GCD(b, a % b)

\* n/d in lowest terms; a zero denominator gives NaN or a signed infinity
Norm(n, d) ==
    IF d = 0 THEN <<ISgn(n), 0>>
    ELSE LET g == GCD(IAbs(n), IAbs(d))
             s == IF d < 0 THEN -1 ELSE 1
         IN  <<(s * n) \div g, (s * d) \div g>>

Rat(n, d) == Norm(n, d)
Zero == <<0, 1>>
One == <<1, 1>>

IsNaN(a) == a = NaN

FNeg(a) == <<-a[1], a[2]>>

FAdd(a, b) ==
    IF IsNaN(a) \/ IsNaN(b) THEN NaN
    ELSE IF a[2] = 0 /\ b[2] = 0 THEN (IF a[1] = b[1] THEN a ELSE NaN)
    ELSE IF a[2] = 0 THEN a
    ELSE IF b[2] = 0 THEN b
    ELSE Norm(a[1] * b[2] + b[1] * a[2], a[2] * b[2])

FSub(a, b) == FAdd(a, FNeg(b))

FMul(a, b) ==
    IF IsNaN(a) \/ IsNaN(b) THEN NaN
    ELSE Norm(a[1] * b[1], a[2] * b[2])

\* numpy true division: x/0 is an infinity, 0/0 is NaN (a RuntimeWarning, no raise)
FDiv(a, b) ==
    IF IsNaN(a) \/ IsNaN(b) THEN NaN
    ELSE LET sb == IF b[1] < 0 THEN -1 ELSE 1
         IN  Norm(a[1] * b[2] * sb, a[2] * IAbs(b[1]))

FAbs(a) == <<IAbs(a[1]), a[2]>>

\* comparisons: every comparison with NaN is false
FLt(a, b) ==
    /\ ~IsNaN(a)
    /\ ~IsNaN(b)
    /\ IF a[2] = 0 /\ b[2] = 0 THEN a[1] < b[1]
       ELSE a[1] * b[2] < b[1] * a[2]

FEq(a, b) == ~IsNaN(a) /\ ~IsNaN(b) /\ a = b
FLe(a, b) == FLt(a, b) \/ FEq(a, b)
FGt(a, b) == FLt(b, a)
FGe(a, b) == FLe(b, a)

(***************************************************************************)
(* pandas Series operations, on a series held as a sequence of floats.     *)
(***************************************************************************)
\* the series compounded without the 1 +
OnePlus_dropped(s) == s

\* 1 + series
OnePlus(s) == [i \in 1..Len(s) |-> FAdd(One, s[i])]

\* the product of the non-NaN entries of s[1..i] (1 when there is none)
RECURSIVE ProdSkipNa(_, _)
ProdSkipNa(s, i) ==
    IF i = 0 THEN One
    ELSE IF IsNaN(s[i]) THEN ProdSkipNa(s, i - 1)
    ELSE FMul(ProdSkipNa(s, i - 1), s[i])

\* Series.prod(): NaN entries are skipped
SeriesProd(s) == ProdSkipNa(s, Len(s))

\* Series.cumprod(): the running product; a NaN entry stays NaN and is skipped
CumProd(s) == [i \in 1..Len(s) |-> IF IsNaN(s[i]) THEN NaN ELSE ProdSkipNa(s, i)]

FMax2(a, b) == IF IsNaN(a) THEN b ELSE IF IsNaN(b) THEN a ELSE IF FLt(a, b) THEN b ELSE a
FMin2(a, b) == IF IsNaN(a) THEN b ELSE IF IsNaN(b) THEN a ELSE IF FLt(b, a) THEN b ELSE a

RECURSIVE MaxSkipNa(_, _)
MaxSkipNa(s, i) == IF i = 0 THEN NaN ELSE FMax2(MaxSkipNa(s, i - 1), s[i])

RECURSIVE MinSkipNa(_, _)
MinSkipNa(s, i) == IF i = 0 THEN NaN ELSE FMin2(MinSkipNa(s, i - 1), s[i])

\* a running maximum that also counts the starting value 1 of the curve
ExpandingMax_from_one(s) == [i \in 1..Len(s) |-> FMax2(One, MaxSkipNa(s, i))]

\* Series.expanding().max(): the largest non-NaN entry so far (NaN while there is none)
ExpandingMax(s) == [i \in 1..Len(s) |-> MaxSkipNa(s, i)]

\* Series.min(): NaN entries are skipped; NaN for an empty or all-NaN series
SeriesMin(s) == MinSkipNa(s, Len(s))

\* (cumulative - running_max) / running_max, entry by entry
Drawdown(cum) ==
    LET running_max == ExpandingMax(cum)
    IN  [i \in 1..Len(cum) |-> FDiv(FSub(cum[i], running_max[i]), running_max[i])]

(***************************************************************************)
(* The three max-drawdown implementations.                                 *)
(***************************************************************************)
\* utils/metrics.py: abs(drawdown.min())
MC_max_drawdown(cumulative_returns) == FAbs(SeriesMin(Drawdown(cumulative_returns)))

\* backtest/analysis.py: abs(drawdown.min())
PA_max_drawdown(cumulative_returns) == FAbs(SeriesMin(Drawdown(cumulative_returns)))

\* backtest/factor_test.py: drawdown.min(), without abs
FB_max_drawdown(cumulative_returns) == SeriesMin(Drawdown(cumulative_returns))

(***************************************************************************)
(* SpecMetrics: a return series and the metric functions applied to it.    *)
(***************************************************************************)
MaxLen == 3

ReturnValues == {Rat(-1, 2), Rat(-1, 10), Zero, Rat(1, 2), One, NaN}

ReturnSeries == UNION {[1..n -> ReturnValues] : n \in 0..MaxLen}

\* the cumulative curve the callers build from a return series: (1 + returns).cumprod()
Cumulative(r) == CumProd(OnePlus(r))

MaxDrawdownFunctions ==
    {"MetricsCalculator.max_drawdown", "PerformanceAnalyzer._max_drawdown",
     "FactorBacktest._max_drawdown"}

MetricsIdle ==
    /\ returns = <<>>
    /\ called = "none"
    /\ cumulative = <<>>
    /\ result = None

MultiIdle ==
    /\ provider = None
    /\ mbt = None
    /\ mbt_call = None
    /\ opt = None
    /\ opt_call = None

FBIdle ==
    /\ fb_provider = None
    /\ fb = None
    /\ fb_call = None
    /\ fb_outputs = NoOutputs

InitMetrics ==
    /\ returns \in ReturnSeries
    /\ called = "none"
    /\ cumulative = <<>>
    /\ result = None
    /\ MultiIdle
    /\ FBIdle

Call_MC_max_drawdown ==
    /\ called' = "MetricsCalculator.max_drawdown"
    /\ cumulative' = Cumulative(returns)
    /\ result' = Some(MC_max_drawdown(Cumulative(returns)))
    /\ UNCHANGED <<returns, multiVars, fbVars>>

Call_PA_max_drawdown ==
    /\ called' = "PerformanceAnalyzer._max_drawdown"
    /\ cumulative' = Cumulative(returns)
    /\ result' = Some(PA_max_drawdown(Cumulative(returns)))
    /\ UNCHANGED <<returns, multiVars, fbVars>>

Call_FB_max_drawdown ==
    /\ called' = "FactorBacktest._max_drawdown"
    /\ cumulative' = Cumulative(returns)
    /\ result' = Some(FB_max_drawdown(Cumulative(returns)))
    /\ UNCHANGED <<returns, multiVars, fbVars>>

(***************************************************************************)
(* FactorBacktest.__init__: which factor input is used, or ValueError.     *)
(* factor_expr is None or Some(expression); factor is "None", an object    *)
(* "with_get_expression" or one "without_get_expression".                  *)
(***************************************************************************)
FactorKinds == {"None", "with_get_expression", "without_get_expression"}

\* FB_factor_input without the hasattr(factor, 'get_expression') test
FB_factor_input_unchecked(factor_expr, factor) ==
    IF factor # "None" THEN "factor"
    ELSE IF ~IsNone(factor_expr) THEN "factor_expr"
    ELSE "ValueError"

FB_factor_input(factor_expr, factor) ==
    IF factor # "None" /\ factor = "with_get_expression" THEN "factor"
    ELSE IF ~IsNone(factor_expr) THEN "factor_expr"
    ELSE "ValueError"

\* what factor.get_expression() returns
GetExpression == "factor.get_expression()"

(***************************************************************************)
(* SpecMulti: MultiFactorBacktest and PortfolioOptimizer.                  *)
(***************************************************************************)
FactorNames == {"A", "B"}

\* the iteration order of the factors and weights dicts
FactorOrder == <<"A", "B">>

InOrder(S) == SelectSeq(FactorOrder, LAMBDA x : x \in S)

\* (date, instrument) keys of the factor panels
MultiKeys == {<<1, 1>>, <<1, 2>>}

PanelValues == {One, Rat(2, 1), NaN}

Panels == UNION {[K -> PanelValues] : K \in SUBSET MultiKeys}

ICMeans == {Rat(-1, 5), Zero, Rat(2, 5), NaN}

SharpeRatios == {Rat(-1, 1), Zero, Rat(2, 1), NaN}

\* the entries of a FactorBacktest result bundle that portfolio.py reads
Bundle(ic, sharpe) ==
    [ic_mean |-> ic, icir |-> Zero, annual_return |-> Zero,
     sharpe_ratio |-> sharpe, max_drawdown |-> Zero]

DefaultPanel == [k \in MultiKeys |-> One]
DefaultBundle == Bundle(Rat(2, 5), Rat(2, 1))

\* What FactorBacktest(expr).run(preprocess=True) yields for one factor: it raises
\* (the provider fails), or it leaves factor_data on the object and returns results.
\* The panel is read only by build_composite_factor and the bundle only by the
\* optimizer and _compare_factors, so one of the two varies at a time.
Outcomes ==
    {[ok |-> TRUE, factor_data |-> pn, results |-> DefaultBundle] : pn \in Panels}
    \cup {[ok |-> TRUE, factor_data |-> DefaultPanel,
           results |-> Bundle(ic, DefaultBundle.sharpe_ratio)] : ic \in ICMeans}
    \cup {[ok |-> TRUE, factor_data |-> DefaultPanel,
           results |-> Bundle(DefaultBundle.ic_mean, sh)] : sh \in SharpeRatios}
    \cup {[ok |-> FALSE, factor_data |-> DefaultPanel, results |-> DefaultBundle]}

WeightValues == {Zero, One, Rat(3, 1)}

\* the numeric type of the supplied weights: Python float/int, or numpy.float64
NumberKinds == {"py", "np"}

\* sum(d.values())
RECURSIVE FSum(_, _)
FSum(f, S) ==
    IF S = {} THEN Zero
    ELSE LET k == CHOOSE x \in S : TRUE IN FAdd(f[k], FSum(f, S \ {k}))

\* r[key] = value on a dict
Put(r, key, value) == [k \in DOMAIN r \cup {key} |-> IF k = key THEN value ELSE r[k]]

EmptyDict == [k \in {} |-> Zero]

Returned(o) == [exc |-> "none", obj |-> o]
Raised(e, o) == [exc |-> e, obj |-> o]

\* v / total_weight: Python numbers raise on a zero divisor, numpy.float64 does not
WeightDivisionRaises(weights, total_weight, kind) ==
    DOMAIN weights # {} /\ kind = "py" /\ FEq(total_weight, Zero)

\* a constructor that stores the supplied weights as they are, not divided by their sum
MF_init_unnormalized(factors, weights, kind) ==
    Returned(Some([factors |-> factors,
                   weights |-> IF IsNone(weights) THEN [name \in factors |-> One]
                               ELSE Get(weights),
                   factor_tests |-> EmptyDict,
                   composite_factor_data |-> None,
                   results |-> EmptyDict]))

\* MultiFactorBacktest.__init__
MF_init(factors, weights, kind) ==
    IF IsNone(weights)
    THEN LET n == Cardinality(factors)
         IN  Returned(Some([factors |-> factors,
                            weights |-> [name \in factors |-> FDiv(One, Rat(n, 1))],
                            factor_tests |-> EmptyDict,
                            composite_factor_data |-> None,
                            results |-> EmptyDict]))
    ELSE LET w == Get(weights)
             total_weight == FSum(w, DOMAIN w)
         IN  IF WeightDivisionRaises(w, total_weight, kind)
             THEN Raised("ZeroDivisionError", None)
             ELSE Returned(Some([factors |-> factors,
                                 weights |-> [k \in DOMAIN w |-> FDiv(w[k], total_weight)],
                                 factor_tests |-> EmptyDict,
                                 composite_factor_data |-> None,
                                 results |-> EmptyDict]))

\* the loop of run_individual_tests over names[i..], with the dicts built so far
RECURSIVE IndividualLoop(_, _, _, _, _)
IndividualLoop(prov, names, i, factor_tests, individual_results) ==
    IF i > Len(names)
    THEN [exc |-> "none", factor_tests |-> factor_tests, individual |-> individual_results]
    ELSE LET name == names[i]
         IN  IF FB_factor_input(Some(name), "None") = "ValueError"
             THEN [exc |-> "ValueError", factor_tests |-> factor_tests,
                   individual |-> individual_results]
             ELSE IF ~prov[name].ok
             THEN [exc |-> "ProviderError", factor_tests |-> factor_tests,
                   individual |-> individual_results]
             ELSE IndividualLoop(prov, names, i + 1,
                                 Put(factor_tests, name, prov[name].factor_data),
                                 Put(individual_results, name, prov[name].results))

\* MultiFactorBacktest.run_individual_tests
MF_run_individual_tests(prov, self) ==
    LET loop == IndividualLoop(prov, InOrder(self.factors), 1, self.factor_tests, EmptyDict)
        tested == [self EXCEPT !.factor_tests = loop.factor_tests]
    IN  IF loop.exc # "none" THEN Raised(loop.exc, tested)
        ELSE Returned([tested EXCEPT !.results = Put(self.results, "individual", loop.individual)])

\* pd.concat(factor_dfs, axis=1): the keys of all panels; a panel without the key gives NaN
ConcatKeys(factor_tests) == UNION {DOMAIN factor_tests[name] : name \in DOMAIN factor_tests}

Cell(panel, key) == IF key \in DOMAIN panel THEN panel[key] ELSE NaN

\* a missing value left missing
FillNa0_propagate(v) == v

\* Series.fillna(0)
FillNa0(v) == IF IsNaN(v) THEN Zero ELSE v

\* composite += all_factors[name].fillna(0) * weight, over names[1..i], at one key
RECURSIVE WeightedSum(_, _, _, _, _)
WeightedSum(factor_tests, weights, names, i, key) ==
    IF i = 0 THEN Zero
    ELSE FAdd(WeightedSum(factor_tests, weights, names, i - 1, key),
              FMul(FillNa0(Cell(factor_tests[names[i]], key)), weights[names[i]]))

\* MultiFactorBacktest.build_composite_factor
MF_build_composite_factor(prov, self) ==
    LET ran == IF DOMAIN self.factor_tests = {}
               THEN MF_run_individual_tests(prov, self)
               ELSE Returned(self)
        s1 == ran.obj
        names == InOrder(DOMAIN s1.weights)
    IN  IF ran.exc # "none" THEN ran
        ELSE IF DOMAIN s1.factor_tests = {} THEN Raised("ValueError", s1)
        ELSE IF ~(DOMAIN s1.weights \subseteq DOMAIN s1.factor_tests) THEN Raised("KeyError", s1)
        ELSE Returned([s1 EXCEPT !.composite_factor_data =
                 Some([key \in ConcatKeys(s1.factor_tests) |->
                          WeightedSum(s1.factor_tests, s1.weights, names, Len(names), key)])])

\* MultiFactorBacktest.run_composite_test: the FactorBacktest for the composite signal
\* is constructed with factor_expr=None and no factor
MF_run_composite_test(prov, self) ==
    LET built == IF IsNone(self.composite_factor_data)
                 THEN MF_build_composite_factor(prov, self)
                 ELSE Returned(self)
        s1 == built.obj
    IN  IF built.exc # "none" THEN built
        ELSE IF FB_factor_input(None, "None") = "ValueError" THEN Raised("ValueError", s1)
        ELSE Returned([s1 EXCEPT !.results =
                 Put(Put(s1.results, "composite", DefaultBundle),
                     "composite_backtest", s1.composite_factor_data)])

\* MultiFactorBacktest._compare_factors: one row per factor and one for the composite
MF_compare_factors(self) ==
    LET individual == self.results["individual"]
        row(name, b) == [Factor |-> name, IC_Mean |-> b.ic_mean, ICIR |-> b.icir,
                         Annual_Return |-> b.annual_return, Sharpe_Ratio |-> b.sharpe_ratio,
                         Max_Drawdown |-> b.max_drawdown]
        names == InOrder(DOMAIN individual)
        comparison == [i \in 1..(Len(names) + 1) |->
                          IF i <= Len(names) THEN row(names[i], individual[names[i]])
                          ELSE row("Composite", self.results["composite"])]
    IN  [self EXCEPT !.results = Put(self.results, "comparison", comparison)]

\* MultiFactorBacktest.run
MF_run(prov, self) ==
    LET ind == MF_run_individual_tests(prov, self)
        comp == MF_run_composite_test(prov, ind.obj)
    IN  IF ind.exc # "none" THEN ind
        ELSE IF comp.exc # "none" THEN comp
        ELSE Returned(MF_compare_factors(comp.obj))

(***************************************************************************)
(* PortfolioOptimizer.                                                     *)
(***************************************************************************)
\* the Sharpe ratio taken as it is, negative or not
PyMax0_unclamped(x) == x

\* Python's max(0, x): x when x > 0, else 0; so 0 for a NaN
PyMax0(x) == IF FGt(x, Zero) THEN x ELSE Zero

OptReturned(w) == [exc |-> "none", ret |-> Some(w)]
OptRaised(e) == [exc |-> e, ret |-> None]

\* PortfolioOptimizer.optimize_weights_ic; the ic_mean entries are numpy.float64
Opt_optimize_weights_ic(prov, self) ==
    LET made == MF_init(self.factors, None, "py")
        ran == MF_run_individual_tests(prov, Get(made.obj))
        individual == ran.obj.results["individual"]
        ic_means == [name \in DOMAIN individual |-> FAbs(individual[name].ic_mean)]
        total_ic == FSum(ic_means, DOMAIN ic_means)
    IN  IF ran.exc # "none" THEN OptRaised(ran.exc)
        ELSE OptReturned([k \in DOMAIN ic_means |-> FDiv(ic_means[k], total_ic)])

\* PortfolioOptimizer.optimize_weights_sharpe
Opt_optimize_weights_sharpe(prov, self) ==
    LET made == MF_init(self.factors, None, "py")
        ran == MF_run_individual_tests(prov, Get(made.obj))
        individual == ran.obj.results["individual"]
        sharpes == [name \in DOMAIN individual |-> PyMax0(individual[name].sharpe_ratio)]
        total_sharpe == FSum(sharpes, DOMAIN sharpes)
        n == Cardinality(DOMAIN sharpes)
    IN  IF ran.exc # "none" THEN OptRaised(ran.exc)
        ELSE IF FEq(total_sharpe, Zero)
        THEN OptReturned([k \in DOMAIN sharpes |-> FDiv(One, Rat(n, 1))])
        ELSE OptReturned([k \in DOMAIN sharpes |-> FDiv(sharpes[k], total_sharpe)])

\* PortfolioOptimizer.optimize_weights_mean_variance: falls back to the Sharpe heuristic
Opt_optimize_weights_mean_variance(prov, self) == Opt_optimize_weights_sharpe(prov, self)

(***************************************************************************)
(* SpecMulti: the calls a script makes on one MultiFactorBacktest or one   *)
(* PortfolioOptimizer, over a fixed data provider.                         *)
(***************************************************************************)
FactorDicts == SUBSET FactorNames \ {{}}

\* the weights argument: None, or a dict over the factors' names
WeightArgs(factors) == {None} \cup {Some(w) : w \in [factors -> WeightValues]}

InitMulti ==
    /\ provider \in [FactorNames -> Outcomes]
    /\ mbt = None
    /\ mbt_call = None
    /\ opt = None
    /\ opt_call = None
    /\ MetricsIdle
    /\ FBIdle

MFCall(op, res, args) ==
    /\ mbt' = res.obj
    /\ mbt_call' = Some([op |-> op, exc |-> res.exc, args |-> args])
    /\ UNCHANGED <<provider, opt, opt_call, metricsVars, fbVars>>

Construct_MultiFactorBacktest ==
    /\ IsNone(mbt_call)
    /\ IsNone(opt)
    /\ \E factors \in FactorDicts :
         \E weights \in WeightArgs(factors) :
           \E kind \in NumberKinds :
             MFCall("__init__", MF_init(factors, weights, kind),
                    Some([factors |-> factors, weights |-> weights, kind |-> kind]))

MFMethod(op, res) == MFCall(op, [exc |-> res.exc, obj |-> Some(res.obj)], None)

Call_run_individual_tests ==
    /\ ~IsNone(mbt)
    /\ MFMethod("run_individual_tests", MF_run_individual_tests(provider, Get(mbt)))

Call_build_composite_factor ==
    /\ ~IsNone(mbt)
    /\ MFMethod("build_composite_factor", MF_build_composite_factor(provider, Get(mbt)))

Call_run_composite_test ==
    /\ ~IsNone(mbt)
    /\ MFMethod("run_composite_test", MF_run_composite_test(provider, Get(mbt)))

Call_run ==
    /\ ~IsNone(mbt)
    /\ MFMethod("run", MF_run(provider, Get(mbt)))

Construct_PortfolioOptimizer ==
    /\ IsNone(mbt_call)
    /\ IsNone(opt)
    /\ \E factors \in FactorDicts : opt' = Some([factors |-> factors])
    /\ UNCHANGED <<provider, mbt, mbt_call, opt_call, metricsVars, fbVars>>

OptCall(op, res) ==
    /\ opt_call' = Some([op |-> op, exc |-> res.exc, ret |-> res.ret])
    /\ UNCHANGED <<provider, mbt, mbt_call, opt, metricsVars, fbVars>>

Call_optimize_weights_ic ==
    /\ ~IsNone(opt)
    /\ OptCall("optimize_weights_ic", Opt_optimize_weights_ic(provider, Get(opt)))

Call_optimize_weights_sharpe ==
    /\ ~IsNone(opt)
    /\ OptCall("optimize_weights_sharpe", Opt_optimize_weights_sharpe(provider, Get(opt)))

Call_optimize_weights_mean_variance ==
    /\ ~IsNone(opt)
    /\ OptCall("optimize_weights_mean_variance",
               Opt_optimize_weights_mean_variance(provider, Get(opt)))

NextMulti ==
    \/ Construct_MultiFactorBacktest
    \/ Call_run_individual_tests
    \/ Call_build_composite_factor
    \/ Call_run_composite_test
    \/ Call_run
    \/ Construct_PortfolioOptimizer
    \/ Call_optimize_weights_ic
    \/ Call_optimize_weights_sharpe
    \/ Call_optimize_weights_mean_variance

SpecMulti == InitMulti /\ [][NextMulti]_vars

(***************************************************************************)
(* Claims about MultiFactorBacktest and PortfolioOptimizer (SpecMulti).    *)
(***************************************************************************)
MFCalled(op) == ~IsNone(mbt_call) /\ Get(mbt_call).op = op
MFReturned(op) == MFCalled(op) /\ Get(mbt_call).exc = "none"
OptCalled(op) == ~IsNone(opt_call) /\ Get(opt_call).op = op
OptDone(op) == OptCalled(op) /\ Get(opt_call).exc = "none"

\* every individual factor test of the object's factors completes
IndividualTestsComplete == \A name \in Get(mbt).factors : provider[name].ok

\* C1: whenever every individual factor test completes, run() returns without
\* raising and its results hold 'individual', 'composite' and 'comparison'.
C1_RunCompletes ==
    (MFCalled("run") /\ IndividualTestsComplete)
        => /\ Get(mbt_call).exc = "none"
           /\ {"individual", "composite", "comparison"} \subseteq DOMAIN Get(mbt).results

\* the weights dict handed to the constructor (None when omitted)
SuppliedWeights == Get(Get(mbt_call).args).weights
AllPositive(w) == \A k \in DOMAIN w : FGt(w[k], Zero)
AllZero(w) == \A k \in DOMAIN w : FEq(w[k], Zero)

\* C2: a supplied Weights Map with positive values is stored divided by its sum
\* (same keys, stored[k] * sum = supplied[k], stored values sum to 1); with no
\* weights supplied each of the n factors gets 1/n and the weights sum to 1.
C2_WeightsNormalized ==
    MFReturned("__init__") =>
        LET stored == Get(mbt).weights
        IN  IF IsNone(SuppliedWeights)
            THEN /\ DOMAIN stored = Get(mbt).factors
                 /\ \A k \in DOMAIN stored :
                       FMul(stored[k], Rat(Cardinality(Get(mbt).factors), 1)) = One
                 /\ FSum(stored, DOMAIN stored) = One
            ELSE LET w == Get(SuppliedWeights)
                 IN  AllPositive(w) =>
                        /\ DOMAIN stored = DOMAIN w
                        /\ \A k \in DOMAIN w : FMul(stored[k], FSum(w, DOMAIN w)) = w[k]
                        /\ FSum(stored, DOMAIN stored) = One

\* C2 witness: positive weights that did not sum to 1 were supplied and stored
C2_Witness ==
    /\ MFReturned("__init__")
    /\ ~IsNone(SuppliedWeights)
    /\ AllPositive(Get(SuppliedWeights))
    /\ Cardinality(DOMAIN Get(SuppliedWeights)) = 2
    /\ \E k \in DOMAIN Get(SuppliedWeights) : Get(mbt).weights[k] = Rat(3, 4)

\* C3: constructing with supplied weights that are all zero fails, and no object
\* (with NaN or infinite weights) is produced.
C3_ZeroWeightsRejected ==
    (MFCalled("__init__") /\ ~IsNone(SuppliedWeights) /\ AllZero(Get(SuppliedWeights)))
        => /\ Get(mbt_call).exc # "none"
           /\ IsNone(mbt)

\* C4: at every key of the combined factor panels the composite is the sum over the
\* factors of the Weights Map of weight * value, a missing value counting as 0; with
\* weights {A: 1/2, B: 1/2}, A = [1, missing], B = [missing, 1] it is [1/2, 1/2].
C4_CompositeIsWeightedSum ==
    MFReturned("build_composite_factor") =>
        LET self == Get(mbt)
            composite == Get(self.composite_factor_data)
            value0(f, key) ==
                IF key \in DOMAIN self.factor_tests[f] /\ ~IsNaN(self.factor_tests[f][key])
                THEN self.factor_tests[f][key] ELSE Zero
            terms(key) == [f \in DOMAIN self.weights |-> FMul(self.weights[f], value0(f, key))]
        IN  /\ DOMAIN composite = UNION {DOMAIN self.factor_tests[f] : f \in DOMAIN self.factor_tests}
            /\ \A key \in DOMAIN composite :
                  composite[key] = FSum(terms(key), DOMAIN self.weights)
            /\ (/\ self.weights = [f \in {"A", "B"} |-> Rat(1, 2)]
                /\ self.factor_tests["A"] = (<<1, 1>> :> One @@ <<1, 2>> :> NaN)
                /\ self.factor_tests["B"] = (<<1, 1>> :> NaN @@ <<1, 2>> :> One))
               => composite = (<<1, 1>> :> Rat(1, 2) @@ <<1, 2>> :> Rat(1, 2))

\* C4 witness: the scenario of the example, after build_composite_factor
C4_Witness ==
    /\ MFReturned("build_composite_factor")
    /\ Get(mbt).weights = [f \in {"A", "B"} |-> Rat(1, 2)]
    /\ Get(mbt).factor_tests["A"] = (<<1, 1>> :> One @@ <<1, 2>> :> NaN)
    /\ Get(mbt).factor_tests["B"] = (<<1, 1>> :> NaN @@ <<1, 2>> :> One)

\* the Sharpe ratio of a factor's individual test, and its positive part
SharpeOf(f) == provider[f].results.sharpe_ratio
PositivePart(x) == IF IsNaN(x) \/ FLe(x, Zero) THEN Zero ELSE x

\* C5: optimize_weights_sharpe gives each factor max(0, Sharpe) / sum of max(0, Sharpe),
\* equal weights 1/n when no Sharpe is positive, and always non-negative weights
\* that sum to 1.
C5_SharpeWeights ==
    OptDone("optimize_weights_sharpe") =>
        LET w == Get(Get(opt_call).ret)
            factors == Get(opt).factors
            pos == [f \in factors |-> PositivePart(SharpeOf(f))]
            total == FSum(pos, factors)
        IN  /\ DOMAIN w = factors
            /\ \A f \in factors :
                  IF total = Zero
                  THEN FMul(w[f], Rat(Cardinality(factors), 1)) = One
                  ELSE FMul(w[f], total) = pos[f]
            /\ \A f \in factors : FGe(w[f], Zero)
            /\ FSum(w, factors) = One

\* C5 witness: one factor with a positive and one with a negative Sharpe were weighted
C5_Witness ==
    /\ OptDone("optimize_weights_sharpe")
    /\ Get(opt).factors = {"A", "B"}
    /\ FGt(SharpeOf("A"), Zero)
    /\ FLt(SharpeOf("B"), Zero)
    /\ Get(Get(opt_call).ret)["B"] = Zero

\* C6: optimize_weights_ic returns non-negative weights |mean IC| / sum |mean IC|
\* that sum to 1, also when all mean ICs are zero or some mean IC is undefined.
C6_ICWeights ==
    OptDone("optimize_weights_ic") =>
        LET w == Get(Get(opt_call).ret)
            factors == Get(opt).factors
        IN  /\ DOMAIN w = factors
            /\ \A f \in factors : FGe(w[f], Zero)
            /\ FSum(w, factors) = One

(***************************************************************************)
(* Claims about compounding and the max-drawdown functions (SpecMetrics).   *)
(***************************************************************************)
AllZeroReturns == Len(returns) >= 1 /\ \A i \in 1..Len(returns) : returns[i] = Zero

\* C8: a return series of all zeros (length >= 1) compounds to a curve of all ones,
\* and the max drawdown of that curve is 0.
C8_ZeroReturnsFlatCurve ==
    (called \in MaxDrawdownFunctions /\ AllZeroReturns)
        => /\ Len(cumulative) = Len(returns)
           /\ \A i \in 1..Len(cumulative) : cumulative[i] = One
           /\ Get(result) = Zero

\* C8 witness: max_drawdown was called on the curve of two or more zero returns
C8_Witness ==
    /\ called = "MetricsCalculator.max_drawdown"
    /\ AllZeroReturns
    /\ Len(returns) >= 2
    /\ Get(result) = Zero

(***************************************************************************)
(* FactorBacktest (backtest/factor_test.py): panels and the quantile cut.  *)
(*                                                                         *)
(* A panel is a function from (date, instrument) keys to floats; a key the *)
(* provider has no value for holds NaN.                                    *)
(***************************************************************************)
Dates == 1..3
Instruments == 1..3
FBKeys == Dates \X Instruments

\* the elements of a set of integers in ascending order
RECURSIVE SetToSeq(_)
SetToSeq(S) ==
    IF S = {} THEN <<>>
    ELSE LET m == CHOOSE x \in S : \A y \in S : x <= y
         IN  <<m>> \o SetToSeq(S \ {m})

\* D.features(fields=[factor_expr]), its column renamed to factor_name
FB_load_factor_data(prov) == prov.factor

\* close.groupby(level='instrument').apply(lambda x: x.pct_change(h).shift(-h)):
\* at date d the change from close[d] to close[d + h]; NaN on the last h dates
ForwardReturn(close, h, d, i) ==
    IF d + h \in Dates
    THEN FSub(FDiv(close[<<d + h, i>>], close[<<d, i>>]), One)
    ELSE NaN

\* the last price an instrument has at or before date d, NaN if it has none
RECURSIVE PadPrice(_, _, _)
PadPrice(close, d, i) ==
    IF d \notin Dates THEN NaN
    ELSE IF ~IsNaN(close[<<d, i>>]) THEN close[<<d, i>>]
    ELSE PadPrice(close, d - 1, i)

\* pct_change(periods) is called without fill_method: pandas before 3.0 first fills the
\* missing prices forward (fill_method='pad'), pandas 3.0 does not fill.  A provider
\* that does not say which pandas is installed stands for the former.
PctChangeFillMethods == {"pad", "none"}

PctChangeFill(prov) ==
    IF "fill_method" \in DOMAIN prov THEN prov.fill_method ELSE "pad"

\* the prices pct_change divides
PctChangeFilled(prov) ==
    IF PctChangeFill(prov) = "pad"
    THEN [k \in FBKeys |-> PadPrice(prov.close, k[1], k[2])]
    ELSE prov.close

FB_load_returns_data(prov, forward_period) ==
    [k \in FBKeys |-> ForwardReturn(PctChangeFilled(prov), forward_period, k[1], k[2])]

\* an alignment that keeps only the dates on which no instrument has a missing value
AlignedKeys_complete_dates(factor_data, returns_data) ==
    {k \in FBKeys :
        \A i \in Instruments :
            ~IsNaN(factor_data[<<k[1], i>>]) /\ ~IsNaN(returns_data[<<k[1], i>>])}

\* pd.concat([factor_data, returns_data], axis=1).dropna(): the keys where both are numbers
AlignedKeys(factor_data, returns_data) ==
    {k \in FBKeys : ~IsNaN(factor_data[k]) /\ ~IsNaN(returns_data[k])}

\* data = pd.concat([factor_data, returns_data], axis=1).dropna(): one row per aligned
\* key, holding the factor column and the return column
AlignedPanel(factor_data, returns_data) ==
    [k \in AlignedKeys(factor_data, returns_data) |->
        [factor |-> factor_data[k], returns |-> returns_data[k]]]

\* data.groupby(level='datetime'): the dates that have a row, ascending
GroupDates(keys) == SetToSeq({k[1] : k \in keys})
DateInstruments(keys, d) == {i \in Instruments : <<d, i>> \in keys}

\* the values x[i], i in I, in ascending order
RECURSIVE SortedValues(_, _)
SortedValues(x, I) ==
    IF I = {} THEN <<>>
    ELSE LET i == CHOOSE a \in I : \A b \in I : FLe(x[a], x[b])
         IN  <<x[i]>> \o SortedValues(x, I \ {i})

\* np.quantile(v, j / n), linear interpolation between the order statistics of v
Quantile(v, j, n) ==
    LET m   == Len(v)
        lo  == (j * (m - 1)) \div n
        rem == (j * (m - 1)) % n
    IN  IF rem = 0 THEN v[lo + 1]
        ELSE FAdd(v[lo + 1], FMul(FSub(v[lo + 2], v[lo + 1]), Rat(rem, n)))

\* algos.unique on the non-decreasing bin edges
RECURSIVE Unique(_)
Unique(b) ==
    IF Len(b) <= 1 THEN b
    ELSE LET rest == Unique(Tail(b))
         IN  IF b[1] = rest[1] THEN rest ELSE <<b[1]>> \o rest

\* duplicates='drop': duplicate edges are dropped (unless there are only two edges)
QCutBins(v, q) ==
    LET bins == [j \in 1..(q + 1) |-> Quantile(v, j - 1, q)]
        unique_bins == Unique(bins)
    IN  IF Len(unique_bins) < Len(bins) /\ Len(bins) # 2 THEN unique_bins ELSE bins

\* bins.searchsorted(x, side='left'): how many edges are below x
SearchSortedLeft(bins, x) == Cardinality({k \in 1..Len(bins) : FLt(bins[k], x)})

\* the cut without include_lowest
IncludeLowest_dropped(ids, x, bins) == ids

\* include_lowest=True: ids[x == bins[0]] = 1
IncludeLowest(ids, x, bins) == IF x = bins[1] THEN 1 ELSE ids

\* labels=False: the bucket index ids - 1, NaN (None here) where ids is 0 or len(bins)
QCutLabel(bins, x) ==
    LET ids == IncludeLowest(SearchSortedLeft(bins, x), x, bins)
    IN  IF ids = Len(bins) \/ ids = 0 THEN None ELSE Some(ids - 1)

\* pd.qcut(date_data[factor_name], q=n_groups, labels=False, duplicates='drop')
QCut(x, I, q) ==
    LET bins == QCutBins(SortedValues(x, I), q)
    IN  [i \in I |-> QCutLabel(bins, x[i])]

(***************************************************************************)
(* FactorBacktest: the object and group_backtest.                          *)
(***************************************************************************)
\* periods_per_year, the default of _annualized_return and _annualized_volatility
PeriodsPerYear == 252

\* __init__: the factor arguments are resolved, the result fields start empty
FB_init(factor_expr, factor, n_groups) ==
    IF FB_factor_input(factor_expr, factor) = "ValueError"
    THEN Raised("ValueError", None)
    ELSE Returned(Some([factor_expr |-> IF FB_factor_input(factor_expr, factor) = "factor"
                                        THEN GetExpression ELSE Get(factor_expr),
                 n_groups |-> n_groups,
                 factor_data |-> None,
                 returns_data |-> None,
                 ic_data |-> None,
                 group_returns |-> None,
                 results |-> EmptyDict]))

\* the instruments of date d that qcut gave the bucket label k
BucketMembers(group, k) == {i \in DOMAIN group : group[i] = Some(k)}

\* one pass of the loop over the dates: the labels and each label's mean return
GroupRet(factor_data, returns_data, keys, n_groups, d) ==
    LET I      == DateInstruments(keys, d)
        x      == [i \in I |-> factor_data[<<d, i>>]]
        r      == [i \in I |-> returns_data[<<d, i>>]]
        group  == QCut(x, I, n_groups)
        labels == {Get(group[i]) : i \in {j \in I : ~IsNone(group[j])}}
        mean(members) == FDiv(FSum(r, members), Rat(Cardinality(members), 1))
    IN  [name |-> d, group |-> group,
         ret |-> [k \in labels |-> mean(BucketMembers(group, k))]]

Range(sq) == {sq[i] : i \in 1..Len(sq)}

\* the union of the rows' labels in the order of their first appearance
RECURSIVE AppearanceOrder(_, _, _)
AppearanceOrder(list, r, acc) ==
    IF r > Len(list) THEN acc
    ELSE AppearanceOrder(list, r + 1, acc \o SetToSeq(DOMAIN list[r].ret \ Range(acc)))

\* pd.DataFrame(group_returns_list): one row per Series; the columns are the union of
\* the Series' labels, combined without sorting (first appearance); a label a row does
\* not have is NaN there
DataFrame(list) ==
    LET columns == AppearanceOrder(list, 1, <<>>)
    IN  [index |-> [r \in 1..Len(list) |-> list[r].name],
         columns |-> columns,
         values |-> [r \in 1..Len(list) |->
                        [c \in 1..Len(columns) |->
                            IF columns[c] \in DOMAIN list[r].ret
                            THEN list[r].ret[columns[c]] ELSE NaN]]]

\* df.iloc[:, c - 1] as a sequence over the rows
Column(df, c) == [r \in 1..Len(df.index) |-> df.values[r][c]]

\* (1 + group_returns).cumprod(), column by column
CumProdFrame(df) ==
    [df EXCEPT !.values =
        [r \in 1..Len(df.index) |->
            [c \in 1..Len(df.columns) |-> CumProd(OnePlus(Column(df, c)))[r]]]]

\* _annualized_return: cumulative ** (periods_per_year / n_periods) - 1, kept symbolic
FB_annualized_return(rets) ==
    [cumulative |-> SeriesProd(OnePlus(rets)), n_periods |-> Len(rets),
     periods_per_year |-> PeriodsPerYear]

\* Series.std() squared: the sample variance (ddof=1) of the non-NaN entries
SampleVariance(rets) ==
    LET obs  == {i \in 1..Len(rets) : ~IsNaN(rets[i])}
        n    == Cardinality(obs)
        mean == FDiv(FSum(rets, obs), Rat(n, 1))
        sq   == [i \in obs |-> FMul(FSub(rets[i], mean), FSub(rets[i], mean))]
    IN  IF n < 2 THEN NaN ELSE FDiv(FSum(sq, obs), Rat(n - 1, 1))

\* Series.std() is computed in binary64 in two passes: avg = sum / count, then the sum
\* of (avg - x) ** 2.  For n copies of one value x the result is 0.0 exactly when the
\* rounded avg is x again.  That holds for the dyadic values of the model; for 0.1 and
\* -0.1 the rounded sum of three, six or seven copies divided by the count differs from
\* x in the last place (0.1 + 0.1 + 0.1 = 0.30000000000000004), and std() is about
\* 1.7e-17.
FloatMeanDeviates(x, n) == FAbs(x) = Rat(1, 10) /\ n \in {3, 6, 7}

\* whether Series.std() of rets is 0.0: two or more observations, all the same value,
\* and the rounded mean is that value
StdIsZero(rets) ==
    LET obs == {i \in 1..Len(rets) : ~IsNaN(rets[i])}
    IN  /\ Cardinality(obs) >= 2
        /\ \A i \in obs, j \in obs : rets[i] = rets[j]
        /\ \A i \in obs : ~FloatMeanDeviates(rets[i], Cardinality(obs))

\* _annualized_volatility: returns.std() * sqrt(periods_per_year), kept symbolic: the
\* exact sample variance, and whether the computed std is 0.0
FB_annualized_volatility(rets) ==
    [variance |-> SampleVariance(rets), periods_per_year |-> PeriodsPerYear,
     zero |-> StdIsZero(rets)]

\* annual_return / annual_vol if annual_vol != 0 else 0
FB_sharpe(annual_return, annual_vol) ==
    [sentinel |-> annual_vol.zero,
     annual_return |-> annual_return, annual_vol |-> annual_vol]

\* group_backtest, the loop over data.groupby(level='datetime'): one Series per date
GB_group_returns_list(factor_data, returns_data, n_groups) ==
    LET data  == AlignedKeys(factor_data, returns_data)
        dates == GroupDates(data)
    IN  [r \in 1..Len(dates) |->
            GroupRet(factor_data, returns_data, data, n_groups, dates[r])]

\* group_returns.iloc[:, -1] - group_returns.iloc[:, 0]
GB_long_short_returns(group_returns) ==
    [r \in 1..Len(group_returns.index) |->
        FSub(Column(group_returns, Len(group_returns.columns))[r],
             Column(group_returns, 1)[r])]

\* group_backtest, the statistics of the long-short returns and results.update(...)
GB_results(results, cumulative_returns, long_short_returns) ==
    LET cumulative_ls == CumProd(OnePlus(long_short_returns))
        annual_return == FB_annualized_return(long_short_returns)
        annual_vol    == FB_annualized_volatility(long_short_returns)
    IN  Put(Put(Put(Put(Put(Put(results,
            "group_returns", cumulative_returns),
            "long_short_returns", cumulative_ls),
            "annual_return", annual_return),
            "annual_volatility", annual_vol),
            "sharpe_ratio", FB_sharpe(annual_return, annual_vol)),
            "max_drawdown", FB_max_drawdown(cumulative_ls))

\* group_backtest from self.group_returns = cumulative_returns on.  The result carries,
\* next to the exception, the object and the return value, the locals of the call: the
\* dates, each date's bucket labels, the matrix before compounding and (when the call
\* gets that far) the long-short returns.
GB_finish(self, list, group_returns, cumulative_returns) ==
    LET s2     == [self EXCEPT !.group_returns = Some(cumulative_returns)]
        locals == [dates |-> group_returns.index,
                   group |-> [r \in 1..Len(list) |-> list[r].group],
                   group_returns |-> group_returns]
        long_short_returns == GB_long_short_returns(group_returns)
    IN  IF Len(group_returns.columns) = 0
        THEN \* group_returns.iloc[:, -1] on a frame without columns
             [exc |-> "IndexError", obj |-> s2, ret |-> None, locals |-> Some(locals)]
        ELSE [exc |-> "none",
              obj |-> [s2 EXCEPT !.results =
                          GB_results(s2.results, cumulative_returns, long_short_returns)],
              ret |-> Some(cumulative_returns),
              locals |-> Some(locals @@ [long_short_returns |-> long_short_returns])]

\* group_backtest, pd.DataFrame(group_returns_list) and (1 + group_returns).cumprod()
GB_frames(self, list, group_returns) ==
    GB_finish(self, list, group_returns, CumProdFrame(group_returns))

\* group_backtest: the panels are loaded if they are not there yet
FB_group_backtest(prov, self) ==
    LET factor_data  == IF IsNone(self.factor_data)
                        THEN FB_load_factor_data(prov) ELSE Get(self.factor_data)
        returns_data == IF IsNone(self.returns_data)
                        THEN FB_load_returns_data(prov, 1) ELSE Get(self.returns_data)
        list == GB_group_returns_list(factor_data, returns_data, self.n_groups)
        res  == GB_frames([self EXCEPT !.factor_data = Some(factor_data),
                                       !.returns_data = Some(returns_data)],
                          list, DataFrame(list))
    IN  [res EXCEPT !.locals =
            Some(Get(res.locals) @@ [data |-> AlignedPanel(factor_data, returns_data)])]

(***************************************************************************)
(* SpecFB: one FactorBacktest object over the data of a provider.          *)
(***************************************************************************)
MaxFactorValue == 3

FactorValues == {Rat(v, 1) : v \in 1..MaxFactorValue}

\* a date's factor values over the instruments: non-decreasing, the missing ones last;
\* no, one or every instrument is missing
FactorRows ==
    {row \in [Instruments -> FactorValues \cup {NaN}] :
        /\ \A i \in Instruments, j \in Instruments :
              i < j => (IsNaN(row[j]) \/ (~IsNaN(row[i]) /\ FLe(row[i], row[j])))
        /\ Cardinality({i \in Instruments : ~IsNaN(row[i])}) # 1}

\* the dates that have a forward return
ReturnDates == {d \in Dates : d + 1 \in Dates}

FactorPanels ==
    {[k \in FBKeys |-> IF k[1] \in ReturnDates THEN rows[k[1]][k[2]] ELSE One] :
        rows \in [ReturnDates -> FactorRows]}

Prices == {One, Rat(2, 1)}

\* prices of the second date: at most one instrument has moved from 1 to 2
SecondPrices ==
    {second \in [Instruments -> Prices] :
        Cardinality({i \in Instruments : second[i] # One}) <= 1}

\* close prices: every instrument starts at 1, takes its price of the second date, and
\* from there on all instruments either keep their price or all swap 1 and 2
ClosePanels ==
    {[k \in FBKeys |->
        IF k[1] = 1 THEN One
        ELSE IF k[1] = 2 \/ ~swap THEN second[k[2]]
        ELSE FSub(Rat(3, 1), second[k[2]])] :
        second \in SecondPrices, swap \in BOOLEAN}

FBProviders == [factor : FactorPanels, close : ClosePanels]

NGroupChoices == {2, 3}

InitFB ==
    /\ fb_provider \in FBProviders
    /\ fb = None
    /\ fb_call = None
    /\ fb_outputs = NoOutputs
    /\ MetricsIdle
    /\ MultiIdle

FBCall(op, res) ==
    /\ fb' = res.obj
    /\ fb_call' = Some([op |-> op, exc |-> res.exc, ret |-> res.ret, locals |-> res.locals])
    /\ UNCHANGED <<fb_provider, metricsVars, multiVars>>

\* a call that ends with the object res.obj in place
FBMethod(op, res) == FBCall(op, [res EXCEPT !.obj = Some(res.obj)])

FBResult(self, ret) == [exc |-> "none", obj |-> Some(self), ret |-> Some(ret), locals |-> None]

Construct_FactorBacktest ==
    /\ IsNone(fb)
    /\ \E factor_expr \in {None, Some("expr")} :
         \E factor \in FactorKinds :
           \E n_groups \in NGroupChoices :
             LET res == FB_init(factor_expr, factor, n_groups)
             IN  FBCall("__init__",
                        [exc |-> res.exc, obj |-> res.obj, ret |-> None,
                         locals |-> Some([factor_expr |-> factor_expr, factor |-> factor,
                                          n_groups |-> n_groups])])

Call_load_factor_data ==
    /\ ~IsNone(fb)
    /\ LET df == FB_load_factor_data(fb_provider)
       IN  FBCall("load_factor_data",
                  FBResult([Get(fb) EXCEPT !.factor_data = Some(df)], df))

Call_load_returns_data ==
    /\ ~IsNone(fb)
    /\ LET rets == FB_load_returns_data(fb_provider, 1)
       IN  FBCall("load_returns_data",
                  FBResult([Get(fb) EXCEPT !.returns_data = Some(rets)], rets))

Call_group_backtest ==
    /\ ~IsNone(fb)
    /\ FBMethod("group_backtest", FB_group_backtest(fb_provider, Get(fb)))

NextFB ==
    \/ Construct_FactorBacktest /\ UNCHANGED fb_outputs
    \/ Call_load_factor_data /\ UNCHANGED fb_outputs
    \/ Call_load_returns_data /\ UNCHANGED fb_outputs
    \/ Call_group_backtest /\ UNCHANGED fb_outputs

SpecFB == InitFB /\ [][NextFB]_vars

(***************************************************************************)
(* Claims about group_backtest (SpecFB).                                   *)
(***************************************************************************)
GBCalled == ~IsNone(fb_call) /\ Get(fb_call).op = "group_backtest"
GBReturned == GBCalled /\ Get(fb_call).exc = "none"
GBLocals == Get(Get(fb_call).locals)
GBRows == 1..Len(GBLocals.dates)

\* the bucket labels qcut handed out on the date of row r
RowLabels(r) ==
    LET group == GBLocals.group[r]
    IN  {Get(group[i]) : i \in {j \in DOMAIN group : ~IsNone(group[j])}}

MaxLabel(r) == CHOOSE k \in RowLabels(r) : \A l \in RowLabels(r) : l <= k
MinLabel(r) == CHOOSE k \in RowLabels(r) : \A l \in RowLabels(r) : k <= l

\* the mean forward return, on the date of row r, of the instruments of bucket k
BucketMeanReturn(r, k) ==
    LET members == BucketMembers(GBLocals.group[r], k)
        rets    == [i \in members |-> Get(Get(fb).returns_data)[<<GBLocals.dates[r], i>>]]
    IN  FDiv(FSum(rets, members), Rat(Cardinality(members), 1))

MinusOne == Rat(-1, 1)

\* C7: for a long-short curve built from returns > -1, the 'max_drawdown' entry that
\* group_backtest writes to the result bundle is >= 0 (as the values returned by
\* MetricsCalculator.max_drawdown and PerformanceAnalyzer._max_drawdown are).
C7_ReportedDrawdownNonNegative ==
    (/\ GBReturned
     /\ \A r \in GBRows : FGt(GBLocals.long_short_returns[r], MinusOne))
        => FGe(Get(fb).results["max_drawdown"], Zero)

\* C9: on every date that has a bucket, the long-short return is the mean forward
\* return of that date's highest bucket minus that of its lowest bucket, also on dates
\* where ties leave fewer than n_groups buckets.
C9_LongShortIsTopMinusBottom ==
    GBReturned =>
        \A r \in GBRows :
            RowLabels(r) # {} =>
                GBLocals.long_short_returns[r]
                    = FSub(BucketMeanReturn(r, MaxLabel(r)), BucketMeanReturn(r, MinLabel(r)))

\* the distinct factor values among the aligned instruments of the date of row r
RowFactorValues(r) ==
    {Get(Get(fb).factor_data)[<<GBLocals.dates[r], i>>] : i \in DOMAIN GBLocals.group[r]}

RowFactor(r, i) == Get(Get(fb).factor_data)[<<GBLocals.dates[r], i>>]

\* C10: on every date with at least n_groups distinct factor values, every aligned
\* instrument of the date is in exactly one bucket 0..n_groups-1 (the buckets are
\* disjoint and cover the date's instruments), and an instrument with a lower factor
\* value is never in a higher bucket than one with a higher factor value.
C10_QuantileCoverage ==
    GBCalled =>
        \A r \in GBRows :
            Cardinality(RowFactorValues(r)) >= Get(fb).n_groups =>
                LET group == GBLocals.group[r]
                    I     == DOMAIN group
                    buckets == 0..(Get(fb).n_groups - 1)
                IN  /\ \A i \in I : ~IsNone(group[i]) /\ Get(group[i]) \in buckets
                    /\ UNION {BucketMembers(group, k) : k \in buckets} = I
                    /\ \A k \in buckets, l \in buckets :
                          k # l => BucketMembers(group, k) \cap BucketMembers(group, l) = {}
                    /\ \A i \in I, j \in I :
                          FLt(RowFactor(r, i), RowFactor(r, j))
                              => Get(group[i]) <= Get(group[j])

\* C10 witness: group_backtest with three groups has cut a date of three distinct
\* factor values into three buckets, and another date of two distinct values with ties
C10_Witness ==
    /\ GBReturned
    /\ Get(fb).n_groups = 3
    /\ \E r \in GBRows : Cardinality(RowFactorValues(r)) = 3 /\ RowLabels(r) = {0, 1, 2}
    /\ \E r \in GBRows :
          /\ Cardinality(RowFactorValues(r)) = 2
          /\ Cardinality(DOMAIN GBLocals.group[r]) = 3

\* the value a curve has before row r: 1 before the first row
PreviousValue(curve, r) == IF r = 1 THEN One ELSE curve[r - 1]

\* a date of the call on which some bucket 0..n_groups-1 has no instrument
SomeBucketMissing ==
    \E r \in GBRows : Cardinality(RowLabels(r)) < Get(fb).n_groups

\* C11: when a bucket has no instrument on a date, group_backtest completes without
\* error, and a missing cell of the Group Return Matrix contributes a return of 0: the
\* bucket's cumulative curve, and the long-short curve where the long-short return is
\* missing, keep the value of the previous date.
C11_MissingCellsZeroFilled ==
    (GBCalled /\ SomeBucketMissing) =>
        /\ GBReturned
        /\ LET group_returns == GBLocals.group_returns
               cumulative_returns == Get(fb).results["group_returns"]
               cumulative_ls == Get(fb).results["long_short_returns"]
           IN  /\ \A r \in GBRows, c \in 1..Len(group_returns.columns) :
                     IsNaN(group_returns.values[r][c]) =>
                         cumulative_returns.values[r][c]
                             = PreviousValue(Column(cumulative_returns, c), r)
               /\ \A r \in GBRows :
                     IsNaN(GBLocals.long_short_returns[r]) =>
                         cumulative_ls[r] = PreviousValue(cumulative_ls, r)

(***************************************************************************)
(* Correlations.  A correlation coefficient is cov / sqrt(var_x * var_y),  *)
(* in general irrational; it is held as its sign and its exact square,     *)
(* [sgn |-> -1 | 0 | 1, sq |-> r * r], and as sq = NaN when undefined.     *)
(***************************************************************************)
CorrNaN == [sgn |-> 0, sq |-> NaN]
IsNaNCorr(c) == IsNaN(c.sq)
CorrPositive(c) == ~IsNaNCorr(c) /\ c.sgn = 1

FSgn(a) == IF IsNaN(a) THEN 0 ELSE ISgn(a[1])

\* the mean of x over the instruments I
MeanOver(x, I) == FDiv(FSum(x, I), Rat(Cardinality(I), 1))

\* sum over I of (x - mean x)(y - mean y)
CoMoment(x, y, I) ==
    LET mx == MeanOver(x, I)
        my == MeanOver(y, I)
    IN  FSum([i \in I |-> FMul(FSub(x[i], mx), FSub(y[i], my))], I)

\* np.corrcoef subtracts the binary64 mean from each side.  The deviations of a constant
\* side are 0.0 exactly when the rounded mean is the value again; otherwise they are one
\* unit in the last place, the computed variance is about 1e-34 and not 0.
ComputedVarianceIsZero(x, I) ==
    /\ \A i \in I, j \in I : x[i] = x[j]
    /\ \A i \in I : ~FloatMeanDeviates(x[i], Cardinality(I))

\* the coefficient np.corrcoef gives when a constant side has such deviations and the
\* other side varies: rounding noise of the order of 1e-17, held as a negative number
\* whose square is 0 (its sign follows the rounding residue of the other side; negative
\* for the returns [0, 0, 1])
CorrNoise == [sgn |-> -1, sq |-> Zero]

\* Pearson's r of x and y over I: NaN with fewer than two observations or a side whose
\* computed variance is 0
Pearson(x, y, I) ==
    LET cov == CoMoment(x, y, I)
        vx  == CoMoment(x, x, I)
        vy  == CoMoment(y, y, I)
    IN  IF Cardinality(I) < 2 THEN CorrNaN
        ELSE IF ComputedVarianceIsZero(x, I) \/ ComputedVarianceIsZero(y, I) THEN CorrNaN
        ELSE IF vx = Zero \/ vy = Zero THEN CorrNoise
        ELSE [sgn |-> FSgn(cov), sq |-> FDiv(FMul(cov, cov), FMul(vx, vy))]

\* Series.rank(): average rank, ties share the mean of their positions
AverageRank(x, I) ==
    [i \in I |->
        LET less  == Cardinality({j \in I : FLt(x[j], x[i])})
            equal == Cardinality({j \in I : x[j] = x[i]})
        IN  FAdd(Rat(less, 1), Rat(equal + 1, 2))]

\* Spearman's rho: Pearson's r of the ranks
Spearman(x, y, I) == Pearson(AverageRank(x, I), AverageRank(y, I), I)

\* Kendall's tau-b: (concordant - discordant) / sqrt((n0 - ties_x)(n0 - ties_y))
Kendall(x, y, I) ==
    LET pairs == {p \in I \X I : p[1] < p[2]}
        sx(p) == FSgn(FSub(x[p[1]], x[p[2]]))
        sy(p) == FSgn(FSub(y[p[1]], y[p[2]]))
        con   == Cardinality({p \in pairs : sx(p) * sy(p) = 1})
        dis   == Cardinality({p \in pairs : sx(p) * sy(p) = -1})
        nx    == Cardinality({p \in pairs : sx(p) # 0})
        ny    == Cardinality({p \in pairs : sy(p) # 0})
    IN  IF Cardinality(I) < 2 \/ nx = 0 \/ ny = 0 THEN CorrNaN
        ELSE [sgn |-> ISgn(con - dis),
              sq |-> Rat((con - dis) * (con - dis), nx * ny)]

\* the methods Series.corr accepts by name
PandasCorrMethods == {"pearson", "spearman", "kendall"}

\* Series.corr(other, method=method) on the rows of one date, for a method pandas knows
SeriesCorr(x, y, I, method) ==
    IF method = "pearson" THEN Pearson(x, y, I)
    ELSE IF method = "spearman" THEN Spearman(x, y, I)
    ELSE Kendall(x, y, I)

(***************************************************************************)
(* FactorBacktest.calculate_ic.                                            *)
(***************************************************************************)
\* the entries of a sequence of correlations that are not NaN, in order
RECURSIVE DropNaNCorr(_)
DropNaNCorr(sq) ==
    IF sq = <<>> THEN <<>>
    ELSE IF IsNaNCorr(Head(sq)) THEN DropNaNCorr(Tail(sq))
    ELSE <<Head(sq)>> \o DropNaNCorr(Tail(sq))

\* ic_series.mean() and ic_series.std() skip NaN; they are sums of irrational terms and
\* are kept as the terms they are taken over (NaN when there are none, or fewer than
\* two for std)
IC_mean(values) == [mean_of |-> DropNaNCorr(values)]
IC_std(values) == [std_of |-> DropNaNCorr(values)]

\* ic_std == 0: two or more defined ICs, all equal
IC_std_is_zero(values) ==
    LET terms == DropNaNCorr(values)
    IN  Len(terms) >= 2 /\ \A i \in 1..Len(terms) : terms[i] = terms[1]

\* ic_mean / ic_std if ic_std != 0 else 0
IC_icir(values) ==
    [sentinel |-> IC_std_is_zero(values), mean_of |-> DropNaNCorr(values)]

\* (ic_series > 0).sum() / len(ic_series): a numpy integer divided by the length
IC_positive_rate(values) ==
    FDiv(Rat(Cardinality({i \in 1..Len(values) : CorrPositive(values[i])}), 1),
         Rat(Len(values), 1))

\* a results.update(...) that leaves IC entries that are already there as they are
IC_results_keep_first(results, ic_series) ==
    IF "ic_series" \in DOMAIN results THEN results
    ELSE Put(Put(Put(Put(Put(results,
            "ic_mean", IC_mean(ic_series.values)),
            "ic_std", IC_std(ic_series.values)),
            "icir", IC_icir(ic_series.values)),
            "ic_positive_rate", IC_positive_rate(ic_series.values)),
            "ic_series", ic_series)

\* calculate_ic, results.update(...)
IC_results(results, ic_series) ==
    Put(Put(Put(Put(Put(results,
        "ic_mean", IC_mean(ic_series.values)),
        "ic_std", IC_std(ic_series.values)),
        "icir", IC_icir(ic_series.values)),
        "ic_positive_rate", IC_positive_rate(ic_series.values)),
        "ic_series", ic_series)

\* data.groupby(level='datetime').apply(lambda x: x[factor].corr(x.iloc[:, -1], method))
IC_series(factor_data, returns_data, method) ==
    LET data  == AlignedKeys(factor_data, returns_data)
        dates == GroupDates(data)
    IN  [index |-> dates,
         values |-> [r \in 1..Len(dates) |->
                        LET I == DateInstruments(data, dates[r])
                        IN  SeriesCorr([i \in I |-> factor_data[<<dates[r], i>>]],
                                       [i \in I |-> returns_data[<<dates[r], i>>]],
                                       I, method)]]

\* what groupby(...).apply(...) returns for a frame without rows: an empty Series or an
\* empty DataFrame, depending on the installed pandas
EmptyApplyResults == {"Series", "DataFrame"}

\* IC_finish with hidden state: the new IC values are appended to those self.ic_data holds
IC_finish_accumulating(self, dates, method, empty_apply, ic_series) ==
    LET accumulated ==
            IF IsNone(self.ic_data) THEN ic_series
            ELSE [index |-> Get(self.ic_data).index \o ic_series.index,
                  values |-> Get(self.ic_data).values \o ic_series.values]
    IN  IF dates # <<>> /\ method \notin PandasCorrMethods
        THEN [exc |-> "ValueError", obj |-> self, ret |-> None, locals |-> None]
        ELSE [exc |-> "none",
              obj |-> [self EXCEPT !.ic_data = Some(accumulated),
                                   !.results = IC_results(self.results, accumulated)],
              ret |-> Some(accumulated), locals |-> None]

\* calculate_ic once the panels are there.  With rows, a method name pandas does not know
\* raises in the first group; without rows the lambda is never called, and the result is
\* either an empty Series (all statistics NaN) or an empty DataFrame, on which
\* "if ic_std != 0" raises ValueError after self.ic_data was assigned.
IC_finish(self, dates, method, empty_apply, ic_series) ==
    IF dates # <<>> /\ method \notin PandasCorrMethods
    THEN [exc |-> "ValueError", obj |-> self, ret |-> None, locals |-> None]
    ELSE IF dates = <<>> /\ empty_apply = "DataFrame"
    THEN [exc |-> "ValueError", obj |-> [self EXCEPT !.ic_data = Some(ic_series)],
          ret |-> None, locals |-> None]
    ELSE [exc |-> "none",
          obj |-> [self EXCEPT !.ic_data = Some(ic_series),
                               !.results = IC_results(self.results, ic_series)],
          ret |-> Some(ic_series), locals |-> None]

\* calculate_ic: the panels are loaded if they are not there yet
FB_calculate_ic(prov, self, method, empty_apply) ==
    LET factor_data  == IF IsNone(self.factor_data)
                        THEN FB_load_factor_data(prov) ELSE Get(self.factor_data)
        returns_data == IF IsNone(self.returns_data)
                        THEN FB_load_returns_data(prov, 1) ELSE Get(self.returns_data)
        res == IC_finish([self EXCEPT !.factor_data = Some(factor_data),
                                      !.returns_data = Some(returns_data)],
                         GroupDates(AlignedKeys(factor_data, returns_data)),
                         method, empty_apply,
                         IC_series(factor_data, returns_data,
                                   IF method \in PandasCorrMethods THEN method ELSE "pearson"))
    IN  [res EXCEPT !.locals =
            Some([method |-> method, data |-> AlignedPanel(factor_data, returns_data)])]

(***************************************************************************)
(* FactorBacktest.preprocess_factor; neutralize, standardize, winsorize    *)
(* and the configuration's winsorize method are the inputs.                *)
(***************************************************************************)
\* Series.clip(lower, upper): a NaN entry stays, a NaN bound does not clip
Clip(v, lower, upper) ==
    IF IsNaN(v) THEN v
    ELSE IF ~IsNaN(lower) /\ FLt(v, lower) THEN lower
    ELSE IF ~IsNaN(upper) /\ FGt(v, upper) THEN upper
    ELSE v

\* n_std of _winsorize_std, and the quantiles of _winsorize_quantile as <<j, n>> for j/n
WinsorizeStd == 3
WinsorizeLower == <<1, 4>>
WinsorizeUpper == <<3, 4>>

\* _winsorize_quantile on the rows of one date: quantile() skips NaN
FB_winsorize_quantile(x, I, lower, upper) ==
    LET obs == {i \in I : ~IsNaN(x[i])}
        v   == SortedValues(x, obs)
        lower_val == IF obs = {} THEN NaN ELSE Quantile(v, lower[1], lower[2])
        upper_val == IF obs = {} THEN NaN ELSE Quantile(v, upper[1], upper[2])
    IN  [i \in I |-> Clip(x[i], lower_val, upper_val)]

\* _winsorize_std on the rows of one date.  x > mean + n_std * std is decided on the
\* squares; a clipped entry is the irrational bound, kept as the terms it is made of.
FB_winsorize_std(x, I, n_std) ==
    LET obs  == {i \in I : ~IsNaN(x[i])}
        n    == Cardinality(obs)
        mean == MeanOver(x, obs)
        var  == IF n < 2 THEN NaN
                ELSE FDiv(CoMoment(x, x, obs), Rat(n - 1, 1))
        bound2 == FMul(Rat(n_std * n_std, 1), var)
        dev(i) == FSub(x[i], mean)
    IN  [i \in I |->
            IF IsNaN(x[i]) \/ IsNaN(var) THEN x[i]
            ELSE IF FGt(FMul(dev(i), dev(i)), bound2)
            THEN [mean |-> mean, n_std |-> n_std, variance |-> var, side |-> FSgn(dev(i))]
            ELSE x[i]]

WinsorizeMethods == {"std", "quantile"}

\* the winsorize step: neither branch is taken for a method that is not 'std' or 'quantile'
FB_winsorize(df, method) ==
    IF method = "std"
    THEN [k \in FBKeys |->
            FB_winsorize_std([i \in Instruments |-> df[<<k[1], i>>]], Instruments,
                             WinsorizeStd)[k[2]]]
    ELSE IF method = "quantile"
    THEN [k \in FBKeys |->
            FB_winsorize_quantile([i \in Instruments |-> df[<<k[1], i>>]], Instruments,
                                  WinsorizeLower, WinsorizeUpper)[k[2]]]
    ELSE df

\* a standardized value (x - mean) / std is irrational in general; it is kept as the
\* four numbers of the deviation from the mean and the sample variance
StandardScore(dev, variance) == dev \o variance
ScoreDeviation(v) == <<v[1], v[2]>>

\* the standardize step on a DataFrame, per date: (x - x.mean()) / x.std().  It is NaN
\* for a missing value, for a date with one value, and for a constant date whose
\* computed variance is 0 (0.0 / 0.0).
FB_standardize(df) ==
    [k \in FBKeys |->
        LET x    == [i \in Instruments |-> df[<<k[1], i>>]]
            obs  == {i \in Instruments : ~IsNaN(x[i])}
            n    == Cardinality(obs)
            mean == MeanOver(x, obs)
            var  == IF n < 2 THEN NaN ELSE FDiv(CoMoment(x, x, obs), Rat(n - 1, 1))
        IN  IF IsNaN(df[k]) \/ IsNaN(var) \/ ComputedVarianceIsZero(x, obs) THEN NaN
            ELSE StandardScore(FSub(df[k], mean), var)]

\* the steps of preprocess_factor in the order of the code: winsorize, then standardize.
\* The winsorize step with 'std' or 'quantile' leaves df a Series (the lambda returns
\* one per date).  The standardize step indexes each group with x[factor_col], which is
\* a column lookup on a DataFrame and a row lookup on a Series: after a winsorize step
\* that ran it raises KeyError, before self.factor_data is assigned.
FB_preprocess_steps(df, standardize, winsorize, method) ==
    LET winsorized == IF winsorize THEN FB_winsorize(df, method) ELSE df
        is_series  == winsorize /\ method \in WinsorizeMethods
    IN  IF ~standardize THEN [exc |-> "none", df |-> winsorized]
        ELSE IF is_series THEN [exc |-> "KeyError", df |-> winsorized]
        ELSE [exc |-> "none", df |-> FB_standardize(winsorized)]

\* preprocess_factor: the factor panel is loaded if it is not there yet; neutralize only
\* logs that it is not implemented
FB_preprocess_factor(prov, self, neutralize, standardize, winsorize, method) ==
    LET factor_data == IF IsNone(self.factor_data)
                       THEN FB_load_factor_data(prov) ELSE Get(self.factor_data)
        loaded == [self EXCEPT !.factor_data = Some(factor_data)]
        steps  == FB_preprocess_steps(factor_data, standardize, winsorize, method)
        locals == [neutralize |-> neutralize, standardize |-> standardize,
                   winsorize |-> winsorize, method |-> method, df |-> factor_data]
    IN  IF steps.exc # "none"
        THEN [exc |-> steps.exc, obj |-> loaded, ret |-> None, locals |-> Some(locals)]
        ELSE [exc |-> "none", obj |-> [self EXCEPT !.factor_data = Some(steps.df)],
              ret |-> Some(steps.df), locals |-> Some(locals)]

(***************************************************************************)
(* SpecPipeline: a constructed FactorBacktest object, its panels,          *)
(* calculate_ic and group_backtest.  SpecPreprocess: the same object, its  *)
(* factor panel and preprocess_factor.                                     *)
(***************************************************************************)
\* the factor rows of a date: increasing, constant at 1, constant at 0.1, one instrument
\* missing, all but one missing, all missing
PipelineRows ==
    {<<Rat(1, 1), Rat(2, 1), Rat(3, 1)>>, <<One, One, One>>,
     <<Rat(1, 10), Rat(1, 10), Rat(1, 10)>>,
     <<Rat(1, 1), Rat(2, 1), NaN>>, <<Rat(1, 1), NaN, NaN>>, <<NaN, NaN, NaN>>}

\* the rows of the two return dates
PipelineRowPairs ==
    {<<<<Rat(1, 1), Rat(2, 1), Rat(3, 1)>>, <<Rat(1, 1), Rat(2, 1), Rat(3, 1)>>>>,
     <<<<Rat(1, 1), Rat(2, 1), Rat(3, 1)>>, <<One, One, One>>>>,
     <<<<Rat(1, 1), Rat(2, 1), NaN>>, <<Rat(1, 1), Rat(2, 1), Rat(3, 1)>>>>,
     <<<<Rat(1, 10), Rat(1, 10), Rat(1, 10)>>, <<Rat(1, 1), Rat(2, 1), Rat(3, 1)>>>>,
     <<<<Rat(1, 1), NaN, NaN>>, <<Rat(1, 1), Rat(2, 1), Rat(3, 1)>>>>,
     <<<<NaN, NaN, NaN>>, <<NaN, NaN, NaN>>>>}

PipelineFactorPanels ==
    {[k \in FBKeys |-> IF k[1] \in ReturnDates THEN rows[k[1]][k[2]] ELSE One] :
        rows \in PipelineRowPairs}

\* the close panels in which the last instrument doubles on the second date
PipelineClosePanels == {close \in ClosePanels : close[<<2, 3>>] = Rat(2, 1)}

PipelineProviders ==
    [factor : PipelineFactorPanels, close : PipelineClosePanels,
     empty_apply : EmptyApplyResults]

\* the method names calculate_ic is called with
ICMethods == {"pearson", "spearman", "kendall", "rank"}

\* the configured winsorize_method
ConfiguredWinsorizeMethods == {"std", "quantile", "mad"}

\* FactorBacktest(factor_expr="expr", n_groups=3)
PipelineObject == FB_init(Some("expr"), "None", 3).obj

InitPipeline ==
    /\ fb_provider \in PipelineProviders
    /\ fb = PipelineObject
    /\ fb_call = None
    /\ fb_outputs = NoOutputs
    /\ MetricsIdle
    /\ MultiIdle

\* preprocess_factor on a panel as the provider gave it
Call_preprocess_factor ==
    /\ ~IsNone(fb)
    /\ Get(fb).factor_data \in {None, Some(FB_load_factor_data(fb_provider))}
    /\ \E neutralize \in BOOLEAN, standardize \in BOOLEAN, winsorize \in BOOLEAN :
         \E method \in ConfiguredWinsorizeMethods :
           FBMethod("preprocess_factor",
                    FB_preprocess_factor(fb_provider, Get(fb), neutralize, standardize,
                                         winsorize, method))

Call_calculate_ic ==
    /\ ~IsNone(fb)
    /\ \E method \in ICMethods :
         FBMethod("calculate_ic",
                  FB_calculate_ic(fb_provider, Get(fb), method, fb_provider.empty_apply))

\* the calls whose outputs the history keeps, and the keys each writes to results
AnalysisCalls == {"calculate_ic", "group_backtest"}

ResultKeys(op) ==
    IF op = "calculate_ic"
    THEN {"ic_mean", "ic_std", "icir", "ic_positive_rate", "ic_series"}
    ELSE {"group_returns", "long_short_returns", "annual_return", "annual_volatility",
          "sharpe_ratio", "max_drawdown"}

\* a call's signature and what it gave: how it ended, the return value, and the entries
\* it wrote to the result bundle (none when it raised)
CallKey(call) ==
    [op |-> call.op,
     method |-> IF call.op = "calculate_ic" THEN Get(call.locals).method ELSE ""]

CallOutput(call, self) ==
    [exc |-> call.exc, ret |-> call.ret,
     results |-> IF call.exc = "none"
                 THEN [k \in ResultKeys(call.op) |-> self.results[k]]
                 ELSE <<>>]

\* the panels an object holds
PanelsOf(o) == IF IsNone(o) THEN None ELSE Some(<<Get(o).factor_data, Get(o).returns_data>>)

\* the history: an analysis call's output is kept if it is the first with its signature,
\* and it is noted whether the last call had a signature seen before; a call that
\* replaces a panel by a different one clears the history
RecordOutputs ==
    LET call == Get(fb_call')
    IN  fb_outputs' =
            IF call.op \in AnalysisCalls
            THEN IF CallKey(call) \in DOMAIN fb_outputs.first
                 THEN [fb_outputs EXCEPT !.again = TRUE]
                 ELSE [first |-> Put(fb_outputs.first, CallKey(call),
                                     CallOutput(call, Get(fb'))),
                       again |-> FALSE]
            ELSE IF PanelsOf(fb') # PanelsOf(fb)
            THEN NoOutputs
            ELSE [fb_outputs EXCEPT !.again = FALSE]

NextPipeline ==
    \/ Call_load_factor_data /\ RecordOutputs
    \/ Call_load_returns_data /\ RecordOutputs
    \/ Call_calculate_ic /\ RecordOutputs
    \/ Call_group_backtest /\ RecordOutputs

SpecPipeline == InitPipeline /\ [][NextPipeline]_vars

NextPreprocess ==
    \/ Call_load_factor_data /\ UNCHANGED fb_outputs
    \/ Call_load_returns_data /\ UNCHANGED fb_outputs
    \/ Call_preprocess_factor /\ UNCHANGED fb_outputs

SpecPreprocess == InitPipeline /\ [][NextPreprocess]_vars

(***************************************************************************)
(* Claims about calculate_ic and group_backtest (SpecPipeline).            *)
(***************************************************************************)
\* the last call was calculate_ic or group_backtest
AnalysisCalled == ~IsNone(fb_call) /\ Get(fb_call).op \in AnalysisCalls

\* the panels the object holds share no (date, instrument) key with both values present
NoCommonKey ==
    /\ ~IsNone(Get(fb).factor_data) /\ ~IsNone(Get(fb).returns_data)
    /\ AlignedKeys(Get(Get(fb).factor_data), Get(Get(fb).returns_data)) = {}

\* C12: when the factor panel and the return panel share no common non-missing key,
\* calculate_ic and group_backtest return without raising; what they return is empty and
\* the summary entries are in the result bundle.
C12_AlignmentMismatch ==
    (AnalysisCalled /\ NoCommonKey) =>
        /\ Get(fb_call).exc = "none"
        /\ Len(Get(Get(fb_call).ret).index) = 0
        /\ ResultKeys(Get(fb_call).op) \subseteq DOMAIN Get(fb).results

(***************************************************************************)
(* The ratio functions of MetricsCalculator (utils/metrics.py),            *)
(* PerformanceAnalyzer (backtest/analysis.py) and FactorBacktest.          *)
(*                                                                         *)
(* A call ends in an exception or a value.  The value is the sentinel 0 of *)
(* an else branch, an exact number (a rational, an infinity or NaN), or an *)
(* irrational number kept as the terms it is made of.                      *)
(***************************************************************************)
MRaised(e) == [exc |-> e, sentinel |-> FALSE, symbolic |-> FALSE, value |-> NaN]
MSentinel == [exc |-> "none", sentinel |-> TRUE, symbolic |-> FALSE, value |-> Zero]
MExact(v) == [exc |-> "none", sentinel |-> FALSE, symbolic |-> FALSE, value |-> v]
MSymbolic(r) == [exc |-> "none", sentinel |-> FALSE, symbolic |-> TRUE, value |-> r]

\* the default risk_free_rate
RiskFreeRate == Rat(3, 100)

\* the positions of a series that hold a number
Obs(rets) == {i \in 1..Len(rets) : ~IsNaN(rets[i])}

\* Series.mean(): NaN is skipped, the mean of nothing is NaN
SeriesMean(rets) == MeanOver(rets, Obs(rets))

\* Series.std(): NaN with fewer than two observations
Std(rets) == [variance |-> SampleVariance(rets), zero |-> StdIsZero(rets)]

\* returns - c
Shift(rets, c) == [i \in 1..Len(rets) |-> FSub(rets[i], c)]

\* returns[returns > 0] and returns[returns < 0]
Positive(rets) == SelectSeq(rets, LAMBDA v : FGt(v, Zero))
Negative(rets) == SelectSeq(rets, LAMBDA v : FLt(v, Zero))

\* periods_per_year / len(returns) divides two Python ints
PeriodsDivisionRaises(rets) == Len(rets) = 0

\* MetricsCalculator.icir: ic_mean / ic_std if ic_std != 0 else 0
MC_icir(ic_series) ==
    IF StdIsZero(ic_series) THEN MSentinel
    ELSE IF Cardinality(Obs(ic_series)) < 2 THEN MExact(NaN)
    ELSE MSymbolic([mean |-> SeriesMean(ic_series), std |-> Std(ic_series)])

\* MetricsCalculator.sharpe_ratio:
\* excess_returns.mean() / returns.std() * sqrt(periods_per_year) if returns.std() != 0 else 0
MC_sharpe_ratio(rets) ==
    LET excess_returns == Shift(rets, FDiv(RiskFreeRate, Rat(PeriodsPerYear, 1)))
    IN  IF StdIsZero(rets) THEN MSentinel
        ELSE IF Cardinality(Obs(rets)) < 2 THEN MExact(NaN)
        ELSE MSymbolic([mean |-> SeriesMean(excess_returns), std |-> Std(rets),
                        periods_per_year |-> PeriodsPerYear])

\* PerformanceAnalyzer._sharpe_ratio, the same expression
PA_sharpe_ratio(rets) ==
    LET excess_returns == Shift(rets, FDiv(RiskFreeRate, Rat(PeriodsPerYear, 1)))
    IN  IF ~StdIsZero(rets)
        THEN IF Cardinality(Obs(rets)) < 2 THEN MExact(NaN)
             ELSE MSymbolic([mean |-> SeriesMean(excess_returns), std |-> Std(rets),
                             periods_per_year |-> PeriodsPerYear])
        ELSE MSentinel

\* group_backtest's statistics of the long-short returns, the 'sharpe_ratio' entry
GB_sharpe_ratio(long_short_returns) ==
    IF PeriodsDivisionRaises(long_short_returns) THEN MRaised("ZeroDivisionError")
    ELSE LET sharpe == FB_sharpe(FB_annualized_return(long_short_returns),
                                 FB_annualized_volatility(long_short_returns))
         IN  IF sharpe.sentinel THEN MSentinel ELSE MSymbolic(sharpe)

\* FactorBacktest._annualized_return and PerformanceAnalyzer._annualized_return:
\* cumulative ** (periods_per_year / n_periods) - 1
FB_annualized_return_call(rets) ==
    IF PeriodsDivisionRaises(rets) THEN MRaised("ZeroDivisionError")
    ELSE MSymbolic(FB_annualized_return(rets))

PA_annualized_return(rets) ==
    IF PeriodsDivisionRaises(rets) THEN MRaised("ZeroDivisionError")
    ELSE MSymbolic([cumulative |-> SeriesProd(OnePlus(rets)), n_periods |-> Len(rets),
                    periods_per_year |-> PeriodsPerYear])

\* MetricsCalculator.calmar_ratio: annual_return / max_dd if max_dd != 0 else 0
MC_calmar_ratio(rets) ==
    IF PeriodsDivisionRaises(rets) THEN MRaised("ZeroDivisionError")
    ELSE LET max_dd == MC_max_drawdown(Cumulative(rets))
         IN  IF max_dd = Zero THEN MSentinel
             ELSE IF IsNaN(max_dd) THEN MExact(NaN)
             ELSE MSymbolic([annual_return |-> PA_annualized_return(rets).value,
                             max_dd |-> max_dd])

\* PerformanceAnalyzer._calmar_ratio
PA_calmar_ratio(rets) ==
    LET annual_return == PA_annualized_return(rets)
        max_dd == PA_max_drawdown(Cumulative(rets))
    IN  IF annual_return.exc # "none" THEN annual_return
        ELSE IF max_dd = Zero THEN MSentinel
        ELSE IF IsNaN(max_dd) THEN MExact(NaN)
        ELSE MSymbolic([annual_return |-> annual_return.value, max_dd |-> max_dd])

\* MetricsCalculator.win_rate: (returns > 0).sum() / len(returns), a numpy integer
\* divided by the length
MC_win_rate(rets) ==
    MExact(FDiv(Rat(Len(Positive(rets)), 1), Rat(Len(rets), 1)))

\* MetricsCalculator.profit_loss_ratio: avg_profit / avg_loss if avg_loss != 0 else 0
MC_profit_loss_ratio(rets) ==
    LET profits == Positive(rets)
        losses  == Negative(rets)
        avg_profit == IF Len(profits) > 0 THEN SeriesMean(profits) ELSE Zero
        avg_loss   == IF Len(losses) > 0 THEN FAbs(SeriesMean(losses)) ELSE Zero
    IN  IF avg_loss # Zero THEN MExact(FDiv(avg_profit, avg_loss)) ELSE MSentinel

\* PerformanceAnalyzer._profit_loss_ratio
PA_profit_loss_ratio(rets) ==
    LET profits == Positive(rets)
        losses  == Negative(rets)
        avg_profit == IF Len(profits) > 0 THEN SeriesMean(profits) ELSE Zero
        avg_loss   == IF Len(losses) > 0 THEN FAbs(SeriesMean(losses)) ELSE Zero
    IN  IF avg_loss # Zero THEN MExact(FDiv(avg_profit, avg_loss)) ELSE MSentinel

\* MetricsCalculator.information_ratio:
\* excess_returns.mean() * periods_per_year / tracking_error if tracking_error != 0 else 0
MC_information_ratio(rets, benchmark_returns) ==
    LET excess_returns == [i \in 1..Len(rets) |-> FSub(rets[i], benchmark_returns[i])]
    IN  IF StdIsZero(excess_returns) THEN MSentinel
        ELSE IF Cardinality(Obs(excess_returns)) < 2 THEN MExact(NaN)
        ELSE MSymbolic([mean |-> SeriesMean(excess_returns), std |-> Std(excess_returns),
                        periods_per_year |-> PeriodsPerYear])

\* sortino_ratio whose guard looks at downside_std only
MC_sortino_ratio_std_guard(rets) ==
    LET excess_returns   == Shift(rets, FDiv(RiskFreeRate, Rat(PeriodsPerYear, 1)))
        downside_returns == Negative(rets)
    IN  IF StdIsZero(downside_returns) THEN MSentinel
        ELSE IF Len(downside_returns) < 2 THEN MExact(NaN)
        ELSE MSymbolic([mean |-> SeriesMean(excess_returns),
                        downside_std |-> Std(downside_returns),
                        periods_per_year |-> PeriodsPerYear])

\* MetricsCalculator.sortino_ratio: 0 if downside_std == 0 or there is no negative return
MC_sortino_ratio(rets) ==
    LET excess_returns   == Shift(rets, FDiv(RiskFreeRate, Rat(PeriodsPerYear, 1)))
        downside_returns == Negative(rets)
    IN  IF StdIsZero(downside_returns) \/ Len(downside_returns) = 0 THEN MSentinel
        ELSE IF Len(downside_returns) < 2 THEN MExact(NaN)
        ELSE MSymbolic([mean |-> SeriesMean(excess_returns),
                        downside_std |-> Std(downside_returns),
                        periods_per_year |-> PeriodsPerYear])

\* PerformanceAnalyzer._sortino_ratio:
\* ... / downside_std if downside_std != 0 and len(downside_returns) > 0 else 0
PA_sortino_ratio(rets) ==
    LET excess_returns   == Shift(rets, FDiv(RiskFreeRate, Rat(PeriodsPerYear, 1)))
        downside_returns == Negative(rets)
    IN  IF ~StdIsZero(downside_returns) /\ Len(downside_returns) > 0
        THEN IF Len(downside_returns) < 2 THEN MExact(NaN)
             ELSE MSymbolic([mean |-> SeriesMean(excess_returns),
                             downside_std |-> Std(downside_returns),
                             periods_per_year |-> PeriodsPerYear])
        ELSE MSentinel

\* MetricsCalculator.ic: Series.corr over the positions where both series hold a number
MC_ic(factor, rets, method) ==
    IF method \in {"pearson", "spearman"}
    THEN MSymbolic(SeriesCorr(factor, rets, Obs(factor) \cap Obs(rets), method))
    ELSE MRaised("ValueError")

(***************************************************************************)
(* SpecMetrics, the calls on a return series.                              *)
(***************************************************************************)
\* a static function of the return series alone, which keeps nothing between calls: each
\* series is handed to it once
MetricsCall(name, curve, res) ==
    /\ called = "none"
    /\ called' = name
    /\ cumulative' = curve
    /\ result' = Some(res)
    /\ UNCHANGED <<returns, multiVars, fbVars>>

Call_MC_icir == MetricsCall("MetricsCalculator.icir", <<>>, MC_icir(returns))

Call_MC_sharpe_ratio ==
    MetricsCall("MetricsCalculator.sharpe_ratio", <<>>, MC_sharpe_ratio(returns))

Call_PA_sharpe_ratio ==
    MetricsCall("PerformanceAnalyzer._sharpe_ratio", <<>>, PA_sharpe_ratio(returns))

Call_GB_sharpe_ratio ==
    MetricsCall("FactorBacktest.group_backtest.sharpe_ratio", <<>>, GB_sharpe_ratio(returns))

Call_FB_annualized_return ==
    MetricsCall("FactorBacktest._annualized_return", <<>>, FB_annualized_return_call(returns))

Call_PA_annualized_return ==
    MetricsCall("PerformanceAnalyzer._annualized_return", <<>>, PA_annualized_return(returns))

Call_MC_calmar_ratio ==
    MetricsCall("MetricsCalculator.calmar_ratio",
                IF Len(returns) = 0 THEN <<>> ELSE Cumulative(returns),
                MC_calmar_ratio(returns))

Call_PA_calmar_ratio ==
    MetricsCall("PerformanceAnalyzer._calmar_ratio",
                IF Len(returns) = 0 THEN <<>> ELSE Cumulative(returns),
                PA_calmar_ratio(returns))

Call_MC_win_rate == MetricsCall("MetricsCalculator.win_rate", <<>>, MC_win_rate(returns))

Call_MC_profit_loss_ratio ==
    MetricsCall("MetricsCalculator.profit_loss_ratio", <<>>, MC_profit_loss_ratio(returns))

Call_PA_profit_loss_ratio ==
    MetricsCall("PerformanceAnalyzer._profit_loss_ratio", <<>>, PA_profit_loss_ratio(returns))

\* the benchmark is flat or the series itself
BenchmarkSeries(rets) == {[i \in 1..Len(rets) |-> Zero], rets}

Call_MC_information_ratio ==
    \E benchmark_returns \in BenchmarkSeries(returns) :
        MetricsCall("MetricsCalculator.information_ratio", <<>>,
                    MC_information_ratio(returns, benchmark_returns)
                        @@ [benchmark_returns |-> benchmark_returns])

Call_MC_sortino_ratio ==
    MetricsCall("MetricsCalculator.sortino_ratio", <<>>, MC_sortino_ratio(returns))

Call_PA_sortino_ratio ==
    MetricsCall("PerformanceAnalyzer._sortino_ratio", <<>>, PA_sortino_ratio(returns))

\* the factor series is the position in the series or the series itself
FactorSeries(rets) == {[i \in 1..Len(rets) |-> Rat(i, 1)], rets}

Call_MC_ic ==
    \E factor \in FactorSeries(returns) :
        \E method \in ICMethods :
            MetricsCall("MetricsCalculator.ic", <<>>,
                        MC_ic(factor, returns, method) @@ [method |-> method])

NextMetrics ==
    \/ Call_MC_max_drawdown
    \/ Call_PA_max_drawdown
    \/ Call_FB_max_drawdown
    \/ Call_MC_icir
    \/ Call_MC_sharpe_ratio
    \/ Call_PA_sharpe_ratio
    \/ Call_GB_sharpe_ratio
    \/ Call_FB_annualized_return
    \/ Call_PA_annualized_return
    \/ Call_MC_calmar_ratio
    \/ Call_PA_calmar_ratio
    \/ Call_MC_win_rate
    \/ Call_MC_profit_loss_ratio
    \/ Call_PA_profit_loss_ratio
    \/ Call_MC_information_ratio
    \/ Call_MC_sortino_ratio
    \/ Call_PA_sortino_ratio
    \/ Call_MC_ic

SpecMetrics == InitMetrics /\ [][NextMetrics]_vars

(***************************************************************************)
(* Claims about the ratio functions (SpecMetrics).                         *)
(***************************************************************************)
\* the call returned, and what it returned is 0
ReturnedZero ==
    /\ Get(result).exc = "none"
    /\ Get(result).sentinel \/ (~Get(result).symbolic /\ Get(result).value = Zero)

\* a series of two or more numbers that are all the same
ConstantSeries(rets) ==
    /\ Len(rets) >= 2
    /\ \A i \in 1..Len(rets) : ~IsNaN(rets[i]) /\ rets[i] = rets[1]

RatioFunctions ==
    {"MetricsCalculator.icir", "MetricsCalculator.calmar_ratio",
     "PerformanceAnalyzer._calmar_ratio", "MetricsCalculator.profit_loss_ratio",
     "PerformanceAnalyzer._profit_loss_ratio", "MetricsCalculator.information_ratio",
     "MetricsCalculator.win_rate", "FactorBacktest._annualized_return",
     "PerformanceAnalyzer._annualized_return"}

\* the denominator of the called ratio function is zero on the series
DenominatorIsZero ==
    \/ /\ called = "MetricsCalculator.icir"
       /\ SampleVariance(returns) = Zero
    \/ /\ called \in {"MetricsCalculator.calmar_ratio", "PerformanceAnalyzer._calmar_ratio"}
       /\ Len(returns) = 0 \/ MC_max_drawdown(Cumulative(returns)) = Zero
    \/ /\ called \in {"MetricsCalculator.profit_loss_ratio",
                      "PerformanceAnalyzer._profit_loss_ratio"}
       /\ Len(Negative(returns)) = 0
    \/ /\ called = "MetricsCalculator.information_ratio"
       /\ SampleVariance([i \in 1..Len(returns) |->
                            FSub(returns[i], Get(result).benchmark_returns[i])]) = Zero
    \/ /\ called \in {"MetricsCalculator.win_rate", "FactorBacktest._annualized_return",
                      "PerformanceAnalyzer._annualized_return"}
       /\ Len(returns) = 0

\* C13: no ratio function raises, on any series, the empty and the one-element ones
\* included, and each returns the sentinel 0 when its denominator is zero: ICIR (IC std),
\* Calmar (max drawdown, or zero periods), profit/loss ratio (no losing period),
\* information ratio (tracking error), win rate and annualized return (zero periods).
C13_RatiosNeverRaise ==
    called \in RatioFunctions =>
        /\ Get(result).exc = "none"
        /\ DenominatorIsZero => ReturnedZero

SharpeFunctions ==
    {"MetricsCalculator.sharpe_ratio", "PerformanceAnalyzer._sharpe_ratio",
     "FactorBacktest.group_backtest.sharpe_ratio"}

\* C14: the Sharpe ratio of a series with zero standard deviation, such as [0, 0, 0] or
\* any constant series of two or more returns, is 0 and the call does not raise, for
\* MetricsCalculator.sharpe_ratio, PerformanceAnalyzer._sharpe_ratio and the
\* 'sharpe_ratio' group_backtest computes from the long-short returns.
C14_SharpeOfConstantSeries ==
    (called \in SharpeFunctions /\ ConstantSeries(returns)) => ReturnedZero

SortinoFunctions ==
    {"MetricsCalculator.sortino_ratio", "PerformanceAnalyzer._sortino_ratio"}

\* C15: Sortino is 0 when the series has no negative return, or when the standard
\* deviation of its negative returns is zero or undefined; with exactly one negative
\* return the result is the sentinel 0.
C15_SortinoSentinel ==
    (/\ called \in SortinoFunctions
     /\ \/ Len(Negative(returns)) <= 1
        \/ ConstantSeries(Negative(returns)))
        => ReturnedZero

(***************************************************************************)
(* SpecConstruct: the construction of a FactorBacktest and the loading of  *)
(* its panels.                                                             *)
(***************************************************************************)
InitConstruct ==
    /\ fb_provider \in PipelineProviders
    /\ fb = None
    /\ fb_call = None
    /\ fb_outputs = NoOutputs
    /\ MetricsIdle
    /\ MultiIdle

NextConstruct ==
    \/ Construct_FactorBacktest /\ UNCHANGED fb_outputs
    \/ Call_load_factor_data /\ UNCHANGED fb_outputs
    \/ Call_load_returns_data /\ UNCHANGED fb_outputs

SpecConstruct == InitConstruct /\ [][NextConstruct]_vars

\* the last call was the constructor; its arguments
ConstructCalled == ~IsNone(fb_call) /\ Get(fb_call).op = "__init__"
ConstructArgs == Get(Get(fb_call).locals)

\* factor_expr is None and factor is None or has no get_expression
NoUsableFactorInput ==
    /\ IsNone(ConstructArgs.factor_expr)
    /\ ConstructArgs.factor \in {"None", "without_get_expression"}

\* C16: constructing a FactorBacktest with no usable factor input fails with an error
\* and no object with result state (factor_data, returns_data, results) comes to exist;
\* with a usable input the construction succeeds, factor_expr is taken from that input
\* and the result state starts empty.
C16_ConstructionNeedsFactorInput ==
    ConstructCalled =>
        IF NoUsableFactorInput
        THEN Get(fb_call).exc # "none" /\ IsNone(fb)
        ELSE /\ Get(fb_call).exc = "none"
             /\ ~IsNone(fb)
             /\ Get(fb).factor_expr =
                    IF ConstructArgs.factor = "with_get_expression"
                    THEN GetExpression ELSE Get(ConstructArgs.factor_expr)
             /\ IsNone(Get(fb).factor_data) /\ IsNone(Get(fb).returns_data)
             /\ Get(fb).results = EmptyDict

\* C16 witness: the constructor was given a factor object without get_expression and no
\* expression, and raised ValueError
C16_Witness ==
    /\ ConstructCalled
    /\ IsNone(ConstructArgs.factor_expr)
    /\ ConstructArgs.factor = "without_get_expression"
    /\ Get(fb_call).exc = "ValueError"
    /\ IsNone(fb)

(***************************************************************************)
(* Claims about the correlation method (SpecPipeline, SpecMetrics).        *)
(***************************************************************************)
\* the method names the IC functions document
DocumentedMethods == {"pearson", "spearman"}

\* calculate_ic was the last call; the method it was given
ICCalled == ~IsNone(fb_call) /\ Get(fb_call).op = "calculate_ic"
ICMethod == Get(Get(fb_call).locals).method

\* C17: a correlation method name other than 'pearson' and 'spearman' makes the IC
\* computation fail with an error, in MetricsCalculator.ic and in
\* FactorBacktest.calculate_ic, on every panel, the empty aligned panel included.
C17_InvalidMethodFails ==
    /\ (ICCalled /\ ICMethod \notin DocumentedMethods) => Get(fb_call).exc # "none"
    /\ (called = "MetricsCalculator.ic" /\ Get(result).method \notin DocumentedMethods)
           => Get(result).exc # "none"

(***************************************************************************)
(* Claims about preprocess_factor (SpecPreprocess).                        *)
(***************************************************************************)
PreprocessCalled == ~IsNone(fb_call) /\ Get(fb_call).op = "preprocess_factor"
PreprocessArgs == Get(Get(fb_call).locals)

\* C18: preprocess_factor with winsorizing enabled and a configured winsorize method that
\* is neither 'std' nor 'quantile' fails with an error; it does not return with the
\* factor values left as they were.
C18_UnknownWinsorizeMethodFails ==
    (/\ PreprocessCalled
     /\ PreprocessArgs.winsorize
     /\ PreprocessArgs.method \notin WinsorizeMethods)
        => Get(fb_call).exc # "none"

(***************************************************************************)
(* Claims about repeated analysis calls (SpecPipeline).                    *)
(***************************************************************************)
\* a step that calls calculate_ic or group_backtest leaves the panels it found loaded as
\* they are, and gives what the first call with its signature gave
AnalysisStepRepeats ==
    (~IsNone(fb_call') /\ Get(fb_call').op \in AnalysisCalls) =>
        /\ ~IsNone(Get(fb).factor_data) => Get(fb').factor_data = Get(fb).factor_data
        /\ ~IsNone(Get(fb).returns_data) => Get(fb').returns_data = Get(fb).returns_data
        /\ CallKey(Get(fb_call')) \in DOMAIN fb_outputs.first =>
              CallOutput(Get(fb_call'), Get(fb')) = fb_outputs.first[CallKey(Get(fb_call'))]

\* C19: calculate_ic and group_backtest leave factor_data and returns_data unchanged, and
\* a call of either, after any number of calls of both in any order on the same panels,
\* returns and writes to the result bundle what its first call did.
C19_RepeatedCallsAgree == [][AnalysisStepRepeats]_vars

\* C19 witness: on panels with aligned rows, calculate_ic('pearson') has been called
\* again after calculate_ic('spearman') and group_backtest, and the result bundle holds
\* what the first call with that method gave
C19_Witness ==
    /\ ICCalled /\ ICMethod = "pearson" /\ Get(fb_call).exc = "none"
    /\ ~NoCommonKey
    /\ [op |-> "group_backtest", method |-> ""] \in DOMAIN fb_outputs.first
    /\ [op |-> "calculate_ic", method |-> "spearman"] \in DOMAIN fb_outputs.first
    /\ fb_outputs.again
    /\ CallOutput(Get(fb_call), Get(fb)) = fb_outputs.first[CallKey(Get(fb_call))]

(***************************************************************************)
(* Claims about the IC summary (SpecPipeline).                             *)
(***************************************************************************)
\* the IC values of the last calculate_ic call, and those that are defined
ICValues == Get(Get(fb_call).ret).values
DefinedICs == DropNaNCorr(ICValues)

\* C20: the IC summary statistics are taken over the dates whose IC is defined: the
\* mean and the standard deviation leave the NaN dates out, and ic_positive_rate is the
\* number of dates with IC > 0 divided by the number of dates with a defined IC.
C20_SummaryOverDefinedICs ==
    (ICCalled /\ Get(fb_call).exc = "none") =>
        /\ Get(fb).results["ic_mean"].mean_of = DefinedICs
        /\ Get(fb).results["ic_std"].std_of = DefinedICs
        /\ Get(fb).results["ic_positive_rate"] =
              FDiv(Rat(Cardinality({i \in 1..Len(DefinedICs) : CorrPositive(DefinedICs[i])}), 1),
                   Rat(Len(DefinedICs), 1))

(***************************************************************************)
(* Claims about the 'group_returns' entry of the result bundle (SpecFB).   *)
(***************************************************************************)
\* C21: the 'group_returns' entry that group_backtest writes to the result bundle is
\* the Group Return Matrix: on every date, the cell of a bucket that has instruments is
\* the mean forward return of the bucket's instruments on that date (the per-period
\* return, not a compounded value).
C21_GroupReturnsIsReturnMatrix ==
    GBReturned =>
        LET entry == Get(fb).results["group_returns"]
        IN  \A r \in GBRows, c \in 1..Len(entry.columns) :
                entry.columns[c] \in RowLabels(r) =>
                    entry.values[r][c] = BucketMeanReturn(r, entry.columns[c])

(***************************************************************************)
(* Claims about the aligned panel (SpecPipeline).                          *)
(***************************************************************************)
\* the aligned panel of the last calculate_ic or group_backtest call
AnalysisData == Get(Get(fb_call).locals).data

\* C22: the panel calculate_ic and group_backtest work on has exactly the (date,
\* instrument) keys that have a value in both the factor panel and the return panel,
\* each once and with its original factor value and return.
C22_PanelIsInnerJoin ==
    AnalysisCalled =>
        LET factor_data  == Get(Get(fb).factor_data)
            returns_data == Get(Get(fb).returns_data)
        IN  /\ \A k \in FBKeys :
                  k \in DOMAIN AnalysisData
                      <=> (~IsNaN(factor_data[k]) /\ ~IsNaN(returns_data[k]))
            /\ \A k \in DOMAIN AnalysisData :
                  /\ AnalysisData[k].factor = factor_data[k]
                  /\ AnalysisData[k].returns = returns_data[k]

\* C22 witness: a call on panels where, on one date, one instrument has no factor value
\* and the others are aligned; the panel has the others' keys and not that one
C22_Witness ==
    /\ AnalysisCalled
    /\ \E d \in Dates :
          /\ <<d, 1>> \in DOMAIN AnalysisData
          /\ <<d, 3>> \notin DOMAIN AnalysisData
          /\ IsNaN(Get(Get(fb).factor_data)[<<d, 3>>])
          /\ ~IsNaN(Get(Get(fb).returns_data)[<<d, 3>>])
    /\ \E k \in FBKeys :
          ~IsNaN(Get(Get(fb).factor_data)[k]) /\ IsNaN(Get(Get(fb).returns_data)[k])

(***************************************************************************)
(* Claims about group_backtest's Sharpe ratio (SpecMetrics).               *)
(***************************************************************************)
\* The Sharpe ratios are irrational in general.  Two of them that are equal end the same
\* way (an exception, the sentinel 0, NaN or a number) and, as numbers, have the same
\* sign.  The sign of mean / std * sqrt(ppy) is that of the mean; the sign of
\* (cumulative ** (ppy / n) - 1) / (std * sqrt(ppy)) is that of cumulative - 1.
SharpeNumerator(res) ==
    IF "mean" \in DOMAIN res.value THEN res.value.mean
    ELSE FSub(res.value.annual_return.cumulative, One)

SharpeDenominator(res) ==
    IF "std" \in DOMAIN res.value THEN res.value.std.variance
    ELSE res.value.annual_vol.variance

SharpeOutcome(res) ==
    IF res.exc # "none" THEN "raised"
    ELSE IF res.sentinel THEN "zero"
    ELSE IF ~res.symbolic THEN (IF IsNaN(res.value) THEN "nan" ELSE "exact")
    ELSE IF IsNaN(SharpeNumerator(res)) \/ IsNaN(SharpeDenominator(res)) THEN "nan"
    ELSE IF FSgn(SharpeNumerator(res)) = 0 THEN "zero"
    ELSE IF FSgn(SharpeNumerator(res)) = 1 THEN "positive"
    ELSE "negative"

\* C23: the 'sharpe_ratio' group_backtest computes from a long-short return series r is
\* the Sharpe ratio mean(r - rf/ppy) / std(r) * sqrt(ppy) that
\* MetricsCalculator.sharpe_ratio(r) and PerformanceAnalyzer._sharpe_ratio(r) return.
C23_GroupBacktestSharpeIsSharpe ==
    (called = "FactorBacktest.group_backtest.sharpe_ratio" /\ Len(returns) >= 1) =>
        /\ SharpeOutcome(Get(result)) = SharpeOutcome(MC_sharpe_ratio(returns))
        /\ SharpeOutcome(Get(result)) = SharpeOutcome(PA_sharpe_ratio(returns))

(***************************************************************************)
(* SpecReturns: load_returns_data(forward_period) on close prices that may *)
(* be missing on some dates of an instrument's history.                    *)
(***************************************************************************)
\* the forward periods load_returns_data is called with
ForwardPeriods == {1, 2}

\* a close price, or NaN on a date the instrument did not trade
ReturnsPrices == {One, Rat(2, 1), NaN}

\* the close panels: the first two instruments take any price on any date, the last one
\* stays at 1
ReturnsClosePanels ==
    {close \in [FBKeys -> ReturnsPrices] : \A d \in Dates : close[<<d, 3>>] = One}

ReturnsProviders ==
    [factor : {[k \in FBKeys |-> One]}, close : ReturnsClosePanels,
     fill_method : PctChangeFillMethods]

InitReturns ==
    /\ fb_provider \in ReturnsProviders
    /\ fb = PipelineObject
    /\ fb_call = None
    /\ fb_outputs = NoOutputs
    /\ MetricsIdle
    /\ MultiIdle

\* load_returns_data(forward_period)
Call_load_returns_data_forward ==
    /\ ~IsNone(fb)
    /\ \E forward_period \in ForwardPeriods :
         LET rets == FB_load_returns_data(fb_provider, forward_period)
         IN  FBCall("load_returns_data",
                    [FBResult([Get(fb) EXCEPT !.returns_data = Some(rets)], rets)
                        EXCEPT !.locals = Some([forward_period |-> forward_period])])

NextReturns ==
    \/ Call_load_returns_data_forward /\ UNCHANGED fb_outputs
    \/ Call_load_factor_data /\ UNCHANGED fb_outputs

SpecReturns == InitReturns /\ [][NextReturns]_vars

(***************************************************************************)
(* Claims about load_returns_data (SpecReturns).                           *)
(***************************************************************************)
\* the last call was load_returns_data(forward_period)
ReturnsLoaded ==
    /\ ~IsNone(fb_call) /\ Get(fb_call).op = "load_returns_data"
    /\ ~IsNone(Get(fb_call).locals)

\* C24: load_returns_data(h) stores at every key (t, instrument) whose instrument has a
\* date t + h the return price[t + h] / price[t] - 1 of that instrument's prices of those
\* two dates (missing when one of the two prices is), and a missing return on the
\* instrument's last h dates.
C24_ForwardReturnNoLookAhead ==
    ReturnsLoaded =>
        LET h     == Get(Get(fb_call).locals).forward_period
            close == fb_provider.close
            rets  == Get(Get(fb).returns_data)
        IN  \A k \in FBKeys :
                IF k[1] + h \in Dates
                THEN rets[k] = FSub(FDiv(close[<<k[1] + h, k[2]>>], close[k]), One)
                ELSE IsNaN(rets[k])

(***************************************************************************)
(* Claims about dates without enough data (SpecPipeline).                  *)
(***************************************************************************)
\* the factor values and the returns of the aligned instruments of date d
DateFactor(d) ==
    [i \in DateInstruments(DOMAIN AnalysisData, d) |-> AnalysisData[<<d, i>>].factor]
DateReturns(d) ==
    [i \in DateInstruments(DOMAIN AnalysisData, d) |-> AnalysisData[<<d, i>>].returns]

\* a date with fewer than two aligned instruments, or on which the factor values are all
\* the same, or the returns are
InsufficientDate(d) ==
    LET I == DateInstruments(DOMAIN AnalysisData, d)
    IN  \/ Cardinality(I) < 2
        \/ \A i \in I, j \in I : DateFactor(d)[i] = DateFactor(d)[j]
        \/ \A i \in I, j \in I : DateReturns(d)[i] = DateReturns(d)[j]

\* C25: calculate_ic with a documented method on a panel that has aligned rows completes;
\* a date with fewer than 2 aligned instruments, constant factor values or constant
\* returns has a NaN IC, and every other date has the IC of its own rows.
C25_InsufficientDatesAbsorbed ==
    (ICCalled /\ ICMethod \in DocumentedMethods /\ DOMAIN AnalysisData # {}) =>
        /\ Get(fb_call).exc = "none"
        /\ LET ic_series == Get(Get(fb_call).ret)
           IN  \A r \in 1..Len(ic_series.index) :
                   LET d == ic_series.index[r]
                   IN  IF InsufficientDate(d)
                       THEN IsNaNCorr(ic_series.values[r])
                       ELSE ic_series.values[r]
                                = SeriesCorr(DateFactor(d), DateReturns(d),
                                             DateInstruments(DOMAIN AnalysisData, d),
                                             ICMethod)

(***************************************************************************)
(* Claims about the order of the preprocessing steps (SpecPreprocess).     *)
(***************************************************************************)
\* the factor panel preprocess_factor found, winsorized if that step is enabled
WinsorizedInput ==
    IF PreprocessArgs.winsorize
    THEN FB_winsorize(PreprocessArgs.df, PreprocessArgs.method)
    ELSE PreprocessArgs.df

\* the standardized values of date d in the panel the object holds
StandardizedOn(d) ==
    {i \in Instruments : ~IsNaN(Get(Get(fb).factor_data)[<<d, i>>])}

\* C26: preprocess_factor applies the enabled steps in the order winsorize, standardize,
\* neutralize: with standardize enabled the stored factor values are the per-date
\* standardization of the winsorized values, so the standardized values of a date sum to
\* 0; neutralize changes no value.
C26_StepsInOrder ==
    PreprocessCalled =>
        /\ Get(fb_call).exc = "none"
        /\ Get(fb).factor_data =
              Some(IF PreprocessArgs.standardize
                   THEN FB_standardize(WinsorizedInput) ELSE WinsorizedInput)
        /\ PreprocessArgs.standardize =>
              \A d \in Dates :
                  FSum([i \in StandardizedOn(d) |->
                            ScoreDeviation(Get(Get(fb).factor_data)[<<d, i>>])],
                       StandardizedOn(d)) = Zero

(***************************************************************************)
(* FactorBacktest.run and SpecRun: a constructed object whose factor_data  *)
(* may be assigned from outside (as MultiFactorBacktest.run_composite_test *)
(* does), the analysis calls and run().  initialize_qlib() succeeds.       *)
(***************************************************************************)
\* the steps of run() after the two loads, in the order of the code: preprocess_factor()
\* when asked for, calculate_ic('pearson'), calculate_ic('spearman'), group_backtest()
RunSteps(preprocess) ==
    (IF preprocess THEN <<[op |-> "preprocess_factor", method |-> "none"]>> ELSE <<>>)
        \o <<[op |-> "calculate_ic", method |-> "pearson"],
              [op |-> "calculate_ic", method |-> "spearman"],
              [op |-> "group_backtest", method |-> "none"]>>

\* one of these calls as run() makes it: preprocess_factor() takes its flags from the
\* configuration, calculate_ic the method run() passes
Run_step(prov, self, step) ==
    CASE step.op = "preprocess_factor" ->
            FB_preprocess_factor(prov, self, prov.config.neutralize, prov.config.standardize,
                                 prov.config.winsorize, prov.config.winsorize_method)
      [] step.op = "calculate_ic" ->
            FB_calculate_ic(prov, self, step.method, prov.empty_apply)
      [] step.op = "group_backtest" ->
            FB_group_backtest(prov, self)

\* the one element of a singleton set
TheOne(S) == CHOOSE x \in S : TRUE

\* run() from step i on: an exception of a step propagates, the return value of a
\* step is dropped (that of calculate_ic('pearson') is kept among the locals to tell
\* what the first IC call had computed), and after the last step run() returns
\* self.results
RECURSIVE Run_from(_, _, _, _, _)
Run_after(prov, res, steps, i, locals) ==
    IF res.exc # "none"
    THEN [exc |-> res.exc, obj |-> res.obj, ret |-> None, locals |-> Some(locals)]
    ELSE Run_from(prov, res.obj, steps, i + 1,
                  IF steps[i].method = "pearson"
                  THEN locals @@ [pearson |-> Get(res.ret)] ELSE locals)

Run_from(prov, self, steps, i, locals) ==
    IF i > Len(steps)
    THEN [exc |-> "none", obj |-> self, ret |-> Some(self.results), locals |-> Some(locals)]
    ELSE TheOne({Run_after(prov, res, steps, i, locals) :
                    res \in {Run_step(prov, self, steps[i])}})

\* run() that loads a panel only where the object has none
FB_run_lazy(prov, self, preprocess) ==
    Run_from(prov,
             [self EXCEPT !.factor_data = IF IsNone(self.factor_data)
                                          THEN Some(FB_load_factor_data(prov))
                                          ELSE self.factor_data,
                          !.returns_data = Some(FB_load_returns_data(prov, 1))],
             RunSteps(preprocess), 1, [preprocess |-> preprocess])

\* run(): load_factor_data() and load_returns_data() unconditionally, then the rest
FB_run(prov, self, preprocess) ==
    Run_from(prov,
             [self EXCEPT !.factor_data = Some(FB_load_factor_data(prov)),
                          !.returns_data = Some(FB_load_returns_data(prov, 1))],
             RunSteps(preprocess), 1, [preprocess |-> preprocess])

\* the factor rows of the two return dates: unevenly spaced values, where the Pearson
\* and the Spearman IC differ; an instrument missing and a constant date; no value at all
RunRowPairs ==
    {<<<<Rat(1, 1), Rat(2, 1), Rat(4, 1)>>, <<Rat(1, 1), Rat(2, 1), Rat(3, 1)>>>>,
     <<<<Rat(1, 1), Rat(2, 1), NaN>>, <<One, One, One>>>>,
     <<<<NaN, NaN, NaN>>, <<NaN, NaN, NaN>>>>}

RunFactorPanels ==
    {[k \in FBKeys |-> IF k[1] \in ReturnDates THEN rows[k[1]][k[2]] ELSE One] :
        rows \in RunRowPairs}

\* config['factor']: no preprocessing step, winsorizing by quantile, and all steps
RunConfigs ==
    {[neutralize |-> FALSE, standardize |-> FALSE, winsorize |-> FALSE,
      winsorize_method |-> "std"],
     [neutralize |-> FALSE, standardize |-> FALSE, winsorize |-> TRUE,
      winsorize_method |-> "quantile"],
     [neutralize |-> TRUE, standardize |-> TRUE, winsorize |-> TRUE,
      winsorize_method |-> "std"]}

RunProviders ==
    [factor : RunFactorPanels, close : PipelineClosePanels,
     empty_apply : EmptyApplyResults, config : RunConfigs]

\* a composite factor panel: the instruments in descending order on every date
CompositePanels == {[k \in FBKeys |-> Rat(4 - k[2], 1)]}

InitRun ==
    /\ fb_provider \in RunProviders
    /\ fb = PipelineObject
    /\ fb_call = None
    /\ fb_outputs = NoOutputs
    /\ MetricsIdle
    /\ MultiIdle

\* bt.factor_data = composite_factor_data (portfolio.py, run_composite_test)
Assign_factor_data ==
    /\ ~IsNone(fb)
    /\ \E panel \in CompositePanels :
         FBCall("factor_data =",
                [exc |-> "none", obj |-> Some([Get(fb) EXCEPT !.factor_data = Some(panel)]),
                 ret |-> None, locals |-> None])

Call_FB_run ==
    /\ ~IsNone(fb)
    /\ \E preprocess \in BOOLEAN :
         FBMethod("run", FB_run(fb_provider, Get(fb), preprocess))

NextRun ==
    \/ Assign_factor_data /\ UNCHANGED fb_outputs
    \/ Call_FB_run /\ UNCHANGED fb_outputs
    \/ Call_calculate_ic /\ UNCHANGED fb_outputs
    \/ Call_group_backtest /\ UNCHANGED fb_outputs

SpecRun == InitRun /\ [][NextRun]_vars

(***************************************************************************)
(* Claims about the IC entries of the result bundle (SpecRun).             *)
(***************************************************************************)
\* the IC entries a calculate_ic call that returned ic_series writes
ICEntries(ic_series) == IC_results(EmptyDict, ic_series)

\* a step that is a calculate_ic call which returns: the IC entries and ic_data are
\* those of this call, whatever an earlier call had written, and every other entry of
\* the bundle is as it was
ICStepOverwrites ==
    (Get(fb_call').op = "calculate_ic" /\ Get(fb_call').exc = "none") =>
        LET ic_series == Get(Get(fb_call').ret)
            before    == Get(fb).results
            after     == Get(fb').results
        IN  /\ Get(fb').ic_data = Some(ic_series)
            /\ DOMAIN after = DOMAIN before \cup ResultKeys("calculate_ic")
            /\ \A k \in ResultKeys("calculate_ic") : after[k] = ICEntries(ic_series)[k]
            /\ \A k \in DOMAIN before \ ResultKeys("calculate_ic") : after[k] = before[k]

\* a step that is a run() call which returns: the IC entries and ic_data are those of
\* calculate_ic('spearman') on the panels the object holds, and the bundle has no entry
\* besides the IC entries and the group_backtest entries
RunStepKeepsSpearman ==
    (Get(fb_call').op = "run" /\ Get(fb_call').exc = "none") =>
        LET spearman == IC_series(Get(Get(fb').factor_data), Get(Get(fb').returns_data),
                                  "spearman")
            after    == Get(fb').results
        IN  /\ Get(fb').ic_data = Some(spearman)
            /\ DOMAIN after = ResultKeys("calculate_ic") \cup ResultKeys("group_backtest")
            /\ \A k \in ResultKeys("calculate_ic") : after[k] = ICEntries(spearman)[k]
            /\ Get(fb_call').ret = Some(after)

\* C27: every calculate_ic call overwrites ic_mean, ic_std, icir, ic_positive_rate,
\* ic_series and ic_data and leaves the group_backtest entries alone; run() calls
\* calculate_ic('pearson') and then calculate_ic('spearman'), so after run() the bundle
\* holds the Spearman statistics only.
C27_ICEntriesOverwritten == [][ICStepOverwrites /\ RunStepKeepsSpearman]_vars

\* C27 witness: run() has returned on a panel whose Pearson IC series differs from its
\* Spearman IC series; the bundle holds the latter and the group_backtest entries
C27_Witness ==
    /\ ~IsNone(fb_call) /\ Get(fb_call).op = "run" /\ Get(fb_call).exc = "none"
    /\ Get(Get(fb_call).locals).pearson # Get(fb).results["ic_series"]
    /\ Get(fb).results["ic_series"] =
          IC_series(Get(Get(fb).factor_data), Get(Get(fb).returns_data), "spearman")
    /\ "group_returns" \in DOMAIN Get(fb).results

(***************************************************************************)
(* Drawdown and the starting value of the curve.                           *)
(***************************************************************************)
\* the return series opens with a loss
FirstReturnNegative == Len(returns) >= 1 /\ FLt(returns[1], Zero)

\* no observed cumulative value is below an earlier observed one
CurveNeverFalls ==
    \A i, j \in 1..Len(cumulative) :
        (i < j /\ ~IsNaN(cumulative[i]) /\ ~IsNaN(cumulative[j]))
            => FLe(cumulative[i], cumulative[j])

LazyOperations == {"calculate_ic", "group_backtest"}

\* the object with no panel loaded
WithoutPanels(self) == [self EXCEPT !.factor_data = None, !.returns_data = None]

\* a step that is a calculate_ic or a group_backtest call: a panel the object held is
\* the panel it holds afterwards, a missing one is the provider's, and the analysis
\* data is built from the panels the object holds
LazyStepKeepsPanels ==
    Get(fb_call').op \in LazyOperations =>
        /\ Get(fb').factor_data =
              IF IsNone(Get(fb).factor_data) THEN Some(FB_load_factor_data(fb_provider))
              ELSE Get(fb).factor_data
        /\ Get(fb').returns_data =
              IF IsNone(Get(fb).returns_data) THEN Some(FB_load_returns_data(fb_provider, 1))
              ELSE Get(fb).returns_data
        /\ Get(Get(fb_call').locals).data =
              AlignedPanel(Get(Get(fb').factor_data), Get(Get(fb').returns_data))

\* a step that is a run() call: the returns are the provider's, the factor panel is
\* the provider's (preprocessed when the call asks for it and the step succeeds), and
\* nothing of the outcome depends on the panels the object held before
RunStepReloadsPanels ==
    Get(fb_call').op = "run" =>
        LET preprocess == Get(Get(fb_call').locals).preprocess
        IN  /\ Get(fb').returns_data = Some(FB_load_returns_data(fb_provider, 1))
            /\ ~preprocess => Get(fb').factor_data = Some(FB_load_factor_data(fb_provider))
            /\ \A fresh \in {FB_run(fb_provider, WithoutPanels(Get(fb)), preprocess)} :
                  /\ Get(fb') = fresh.obj
                  /\ Get(fb_call').exc = fresh.exc
                  /\ Get(fb_call').ret = fresh.ret

\* C29: calculate_ic and group_backtest load the factor data or the returns data only
\* when the field is None and never replace a panel already present, so a composite
\* factor assigned to factor_data is what they evaluate; run() always reloads both
\* panels from the provider before preprocessing and discards a factor_data set before.
C29_LazyLoadingVersusRun == [][LazyStepKeepsPanels /\ RunStepReloadsPanels]_vars

\* C29 witness: after a run() and an assignment of a composite panel that the provider
\* does not serve, calculate_ic has evaluated the composite panel and left it in place
C29_Witness ==
    /\ ~IsNone(fb_call) /\ Get(fb_call).op = "calculate_ic" /\ Get(fb_call).exc = "none"
    /\ Get(fb).factor_data # Some(FB_load_factor_data(fb_provider))
    /\ Get(Get(fb).factor_data) \in CompositePanels
    /\ \A k \in DOMAIN AnalysisData : AnalysisData[k].factor = Get(Get(fb).factor_data)[k]
    /\ DOMAIN AnalysisData # {}
    /\ "group_returns" \in DOMAIN Get(fb).results

(***************************************************************************)
(* MetricsCalculator against PerformanceAnalyzer (SpecMetrics).            *)
(***************************************************************************)
\* the result of the function called equals what the other class computes on the
\* same return series
PerformanceAnalyzerAgrees ==
    /\ called = "PerformanceAnalyzer._sharpe_ratio"
          => Get(result) = MC_sharpe_ratio(returns)
    /\ called = "PerformanceAnalyzer._calmar_ratio"
          => Get(result) = MC_calmar_ratio(returns)
    /\ called = "PerformanceAnalyzer._sortino_ratio"
          => Get(result) = MC_sortino_ratio(returns)
    /\ called = "PerformanceAnalyzer._profit_loss_ratio"
          => Get(result) = MC_profit_loss_ratio(returns)
    /\ called = "PerformanceAnalyzer._max_drawdown"
          => Get(result) = MC_max_drawdown(cumulative)

MetricsCalculatorAgrees ==
    /\ called = "MetricsCalculator.sharpe_ratio"
          => Get(result) = PA_sharpe_ratio(returns)
    /\ called = "MetricsCalculator.calmar_ratio"
          => Get(result) = PA_calmar_ratio(returns)
    /\ called = "MetricsCalculator.sortino_ratio"
          => Get(result) = PA_sortino_ratio(returns)
    /\ called = "MetricsCalculator.profit_loss_ratio"
          => Get(result) = PA_profit_loss_ratio(returns)
    /\ called = "MetricsCalculator.max_drawdown"
          => /\ Get(result) = PA_max_drawdown(cumulative)
             /\ FB_max_drawdown(cumulative) = FNeg(Get(result))

\* C30: on every non-empty return series PerformanceAnalyzer's _sharpe_ratio,
\* _max_drawdown, _calmar_ratio, _sortino_ratio and _profit_loss_ratio return what
\* MetricsCalculator's sharpe_ratio, max_drawdown, calmar_ratio, sortino_ratio and
\* profit_loss_ratio return, and FactorBacktest._max_drawdown returns the negation
\* of MetricsCalculator.max_drawdown of the same cumulative curve.
C30_MetricImplementationsAgree ==
    Len(returns) >= 1 =>
        /\ PerformanceAnalyzerAgrees
        /\ MetricsCalculatorAgrees
        /\ called = "FactorBacktest._max_drawdown"
              => Get(result) = FNeg(MC_max_drawdown(cumulative))

\* C30 witness: _sortino_ratio called on a series with losses and gains, where the
\* ratio is a number and not the 0 of the guard; it is MetricsCalculator's
C30_Witness ==
    /\ called = "PerformanceAnalyzer._sortino_ratio"
    /\ returns = <<Rat(-1, 2), Rat(1, 2), Rat(-1, 10)>>
    /\ Get(result).symbolic
    /\ Get(result) = MC_sortino_ratio(returns)

====
